---------------------------- MODULE Spec2Model ----------------------------
(***************************************************************************)
(* The cross-chain signing bridge of use-wallet's Liquid EVM wallets.      *)
(*                                                                         *)
(* The repository holds several revisions of the wallet adapter:           *)
(*   "Rainbow"             part_001 on the base class of                   *)
(*                         packages/use-wallet/src/wallets/                *)
(*                         liquid-evm-base.ts                              *)
(*   "RainbowKit"          part_003 (lines 1-350) on the base class of     *)
(*                         part_000                                        *)
(*   "RainbowKitSoftGuard" part_003 (lines 352-633) on the base class of   *)
(*                         part_000, overriding ensureAlgorandChain        *)
(*   "MetaMask"            part_002, a stand-alone adapter                 *)
(* The variable wallet says which adapter the instance is.                 *)
(*                                                                         *)
(* An operation is cut at its awaits on an external party (the provider,   *)
(* the signing SDK, an awaited hook); pc names the await the               *)
(* signTransactions call is suspended at.  connect, disconnect and         *)
(* resumeSession run from start to end between two signTransactions        *)
(* calls; last records which of them was called last and what its derive   *)
(* call was given and returned.  Array indexes are the code's (0-based);   *)
(* a sequence position k holds index k-1.                                  *)
(*                                                                         *)
(* Spec follows signTransactions await by await.  SessionSpec follows      *)
(* connect, resumeSession and disconnect await by await instead, with up   *)
(* to MaxCalls of them in progress on the one instance; calls holds their  *)
(* locals and what each of them has done so far, ended the call that the   *)
(* last step saw return or throw.  SdkSpec follows initializeEvmSdk        *)
(* await by await for the operations that call it.  OverlapSpec lets a     *)
(* second signTransactions call start while the first is suspended;        *)
(* parked holds the call that is not running.  ResumeSpec runs connect     *)
(* and resumeSession from start to end with the connector's name and       *)
(* icon in the accounts they write.                                        *)
(***************************************************************************)
EXTENDS Integers, Sequences, FiniteSets, Bags, TLC

VARIABLES
    wallet,         \* which adapter class this instance is
    store,          \* store.state.wallets[this.id]
    evmAddressMap,  \* this.evmAddressMap: algorandAddress -> evmAddress
    pc,             \* where the signTransactions call is
    call,           \* the locals of the signTransactions call
    uiHooks,        \* options.uiHooks ?? managerUIHooks: which hooks are set
    last,           \* the operation last called, and what its derive call
                    \* was given, found and returned
    _connecting,    \* RainbowKitWallet._connecting (part_003 line 41)
    calls,          \* the connect, resumeSession and disconnect calls in
                    \* progress: a bag of their locals
    ended,          \* the call the last step ended, if it ended one
    liquidEvmSdk,   \* this.liquidEvmSdk: 0 for null, else the number of
                    \* the LiquidEvmSdk object it holds
    algorandClient, \* this.algorandClient, likewise
    sdkCalls,       \* per operation, where its initializeEvmSdk call is
                    \* and the handle it was given
    parked          \* a second signTransactions call: its position and
                    \* its locals while the other call runs

\* The memoized SDK and the calls that ask for it.
sdkVars == <<liquidEvmSdk, algorandClient, sdkCalls>>

vars == <<wallet, store, evmAddressMap, pc, call, uiHooks, last,
          _connecting, calls, ended, sdkVars, parked>>

\* What Spec leaves alone.
sessionVars == <<_connecting, calls, ended, sdkVars, parked>>

---------------------------------------------------------------------------
(* Bounds *)

MaxTxns == 3

\* How many connect, resumeSession and disconnect calls SessionSpec has in
\* progress at once.
MaxCalls == 2

\* How long the groups of two overlapping signTransactions calls are.
MaxOverlapTxns == 2

---------------------------------------------------------------------------
(* Values *)

Wallets == {"Rainbow", "RainbowKit", "RainbowKitSoftGuard", "MetaMask"}

EvmAddrs == {"0xA", "0xB"}
AlgoAddrs == {"ALGO_A", "ALGO_B"}
Absent == "absent"

\* What the connector reports on eth_requestAccounts / getAccount.
ConnectorReports == {<<"0xA">>, <<"0xA", "0xB">>, <<"0xB", "0xA">>}

\* liquidEvmSdk.getAddress({ evmAddress }): deterministic and injective.
getAddress(evmAddress) == IF evmAddress = "0xA" THEN "ALGO_A" ELSE "ALGO_B"

ALGORAND_CHAIN_ID_HEX == "0x1040"
\* What eth_chainId can answer: the target id, the same id with another
\* letter case, another network.
ChainIdReplies == {"0x1040", "0X1040", "0x1"}
toLowerCase(s) == IF s = "0X1040" THEN "0x1040" ELSE s

ALGORAND_CHAIN_ID == 4160
\* getAccount(wagmiConfig).chainId
WagmiChainIds == {4160, 1}

\* Codes a failing wallet_switchEthereumChain can carry; 4001 is the
\* user's rejection.
SwitchErrorCodes == {4902, -32600, -32603, 4001}

\* The code a failing signature request carries: the user's rejection.
SignErrorCodes == {4001}

\* The hooks an application sets: none, or all three.
HookConfigs ==
    {[onConnect |-> b, onBeforeSign |-> b, onAfterSign |-> b] : b \in BOOLEAN}

NoSession == [exists |-> FALSE, accounts |-> <<>>, activeAccount |-> Absent]

NullBlob == [of |-> -1, by |-> "null"]

NoIndexes == [given |-> FALSE, set |-> {}]

NoLast ==
    [ op             |-> "none",
      error          |-> "none",
      persisted      |-> <<>>,    \* walletState.accounts when a resume began
      evmAddresses   |-> <<>>,    \* what deriveAlgorandAccounts was given
      mapBefore      |-> <<>>,    \* evmAddressMap when derive (or clear) began
      walletAccounts |-> <<>>,    \* what deriveAlgorandAccounts returned
      reported       |-> {} ]     \* what the connector answered (ResumeSpec)

NoCall ==
    [ nested       |-> FALSE,
      encoded      |-> FALSE,
      txnGroup     |-> <<>>,
      indexesToSign|-> NoIndexes,
      flatTxns     |-> <<>>,
      txnsToSign   |-> <<>>,
      evmAddress   |-> Absent,
      rpcLog       |-> <<>>,
      signCalls    |-> <<>>,
      beforeSign   |-> <<>>,
      afterSign    |-> <<>>,
      result       |-> <<>>,
      error        |-> "none",
      errorCode    |-> 0 ]

---------------------------------------------------------------------------
(* Helpers *)

Range(s) == {s[k] : k \in DOMAIN s}

RECURSIVE Concat(_)
Concat(ss) == IF ss = <<>> THEN <<>> ELSE Head(ss) \o Concat(Tail(ss))

\* The elements of s at the positions where keep is TRUE, in order.
RECURSIVE SubseqWhere(_, _, _)
SubseqWhere(s, keep, k) ==
    IF k > Len(s) THEN <<>>
    ELSE (IF keep[k] THEN <<s[k]>> ELSE <<>>) \o SubseqWhere(s, keep, k + 1)

\* The indexes (0-based, ascending) at which keep is TRUE.
RECURSIVE IndexesWhere(_, _)
IndexesWhere(keep, k) ==
    IF k > Len(keep) THEN <<>>
    ELSE (IF keep[k] THEN <<k - 1>> ELSE <<>>) \o IndexesWhere(keep, k + 1)

EmptyMap == [a \in AlgoAddrs |-> Absent]

\* BaseWallet.addresses: the addresses of the persisted accounts.
addresses == [k \in DOMAIN store.accounts |-> store.accounts[k].address]

\* Which base class revision the adapter runs signTransactions of.
HasFallback == wallet \in {"RainbowKit", "RainbowKitSoftGuard"}

---------------------------------------------------------------------------
(* TransactionGroupProcessor *)

\* src/utils flattenTxnGroup: a group given as an array of groups is
\* flattened one level.
flattenTxnGroup(nested, txnGroup) == IF nested THEN Concat(txnGroup) ELSE txnGroup

\* src/utils isSignedTxn on the msgpack-decoded blob.
isSignedTxn(txnBuffer) == txnBuffer.signed

\* algosdk.decodeSignedTransaction(b).txn / decodeUnsignedTransaction(b):
\* the transaction inside the blob, without the signature wrapper.
decodeTxn(txnBuffer) == [id |-> txnBuffer.id, sender |-> txnBuffer.sender]

isIndexMatch(indexesToSign, index) ==
    ~indexesToSign.given \/ index \in indexesToSign.set

\* liquid-evm-base.ts processTxns: every entry is kept; an entry this
\* wallet is not to sign carries signers: [] (sign = FALSE).
BaseProcessTxns(txnGroup, indexesToSign) ==
    [k \in 1..Len(txnGroup) |->
        LET canSignTxn == txnGroup[k].sender \in Range(addresses)
        IN  [txn  |-> decodeTxn(txnGroup[k]),
             sign |-> isIndexMatch(indexesToSign, k - 1) /\ canSignTxn]]

\* liquid-evm-base.ts processEncodedTxns.
BaseProcessEncodedTxns(txnGroup, indexesToSign) ==
    [k \in 1..Len(txnGroup) |->
        LET isSigned   == isSignedTxn(txnGroup[k])
            canSignTxn == ~isSigned /\ txnGroup[k].sender \in Range(addresses)
        IN  [txn  |-> decodeTxn(txnGroup[k]),
             sign |-> isIndexMatch(indexesToSign, k - 1) /\ canSignTxn]]

\* part_000 / part_002 processTxns: only the entries to sign are kept.
processTxns(txnGroup, indexesToSign) ==
    LET keep == [k \in 1..Len(txnGroup) |->
                    LET canSignTxn == txnGroup[k].sender \in Range(addresses)
                    IN  isIndexMatch(indexesToSign, k - 1) /\ canSignTxn]
    IN  SubseqWhere([k \in 1..Len(txnGroup) |-> decodeTxn(txnGroup[k])], keep, 1)

\* A processEncodedTxns that forgets the isSigned test.
processEncodedTxnsResigning(txnGroup, indexesToSign) ==
    LET keep == [k \in 1..Len(txnGroup) |->
                    LET canSignTxn == txnGroup[k].sender \in Range(addresses)
                    IN  isIndexMatch(indexesToSign, k - 1) /\ canSignTxn]
    IN  SubseqWhere([k \in 1..Len(txnGroup) |-> decodeTxn(txnGroup[k])], keep, 1)

\* part_000 / part_002 processEncodedTxns.
processEncodedTxns(txnGroup, indexesToSign) ==
    LET keep == [k \in 1..Len(txnGroup) |->
                    LET isSigned   == isSignedTxn(txnGroup[k])
                        canSignTxn == ~isSigned /\ txnGroup[k].sender \in Range(addresses)
                    IN  isIndexMatch(indexesToSign, k - 1) /\ canSignTxn]
    IN  SubseqWhere([k \in 1..Len(txnGroup) |-> decodeTxn(txnGroup[k])], keep, 1)

---------------------------------------------------------------------------
(* The inputs of signTransactions *)

\* The flattened groups of n entries: entry k-1 has id k-1.
FlatGroups(n, encoded) ==
    { [k \in 1..n |-> [id |-> k - 1, sender |-> snd[k], signed |-> sgn[k]]] :
        snd \in [1..n -> AlgoAddrs],
        sgn \in IF encoded THEN [1..n -> BOOLEAN] ELSE {[k \in 1..n |-> FALSE]} }

IndexFilters(n) ==
    {NoIndexes} \cup {[given |-> TRUE, set |-> S] : S \in SUBSET (0..(n - 1))}

\* A group is passed flat (cut = 0), or as an array of two groups (T[]):
\* its first entry and the rest.  Groups of Transaction objects come in
\* both shapes, groups of encoded blobs flat.
SignInputs ==
    UNION { { [nested |-> cut > 0,
               encoded |-> encoded,
               txnGroup |-> IF cut > 0
                            THEN <<SubSeq(flat, 1, cut), SubSeq(flat, cut + 1, n)>>
                            ELSE flat,
               indexesToSign |-> f] :
                flat \in FlatGroups(n, encoded),
                f \in IndexFilters(n),
                cut \in 0..(IF n = 0 \/ encoded THEN 0 ELSE 1) } :
            n \in 0..MaxTxns, encoded \in BOOLEAN }

---------------------------------------------------------------------------
(* UI hooks *)

\* options.uiHooks?.onBeforeSign ?? managerUIHooks?.onBeforeSign, and the
\* same for onAfterSign.  The MetaMask adapter (part_002) has no hooks.
onBeforeSign == wallet # "MetaMask" /\ uiHooks.onBeforeSign
onAfterSign == wallet # "MetaMask" /\ uiHooks.onAfterSign

\* Whether an invoked onAfterSign throws.
AfterSignThrows == IF onAfterSign THEN BOOLEAN ELSE {FALSE}

\* An invocation of onAfterSign whose exception escapes.
invokeAfterSignUnguarded(c, success, message, threw) ==
    IF onAfterSign
    THEN LET told == [c EXCEPT !.afterSign = Append(@, [success |-> success,
                                                        message |-> message,
                                                        threw   |-> threw])]
         IN  IF threw
             THEN [told EXCEPT !.error = "HookError", !.errorCode = 0]
             ELSE told
    ELSE c

\* try { onAfterSign(success, message) } catch (e) {}
invokeAfterSign(c, success, message, threw) ==
    IF onAfterSign
    THEN [c EXCEPT !.afterSign = Append(@, [success |-> success,
                                            message |-> message,
                                            threw   |-> threw])]
    ELSE c

\* A catch block that rethrows without telling onAfterSign.
catchBlockSilent(c, error, code, threw) ==
    [c EXCEPT !.error = error, !.errorCode = code, !.result = <<>>]

\* The catch block of signTransactions: onAfterSign(false, error.message)
\* inside its own try, then throw error.
catchBlock(c, error, code, threw) ==
    invokeAfterSign([c EXCEPT !.error = error, !.errorCode = code, !.result = <<>>],
                    FALSE, error, threw)

\* What onBeforeSign is called with.  liquid-evm-base.ts lines 272-274:
\* the unsigned encoding of every entry of txnsToSign.
BaseBeforeSignArgs(txnsToSign, indexesToSign) ==
    [txns |-> [k \in 1..Len(txnsToSign) |->
                  [id |-> txnsToSign[k].txn.id,
                   sender |-> txnsToSign[k].txn.sender,
                   signed |-> FALSE]],
     nested |-> FALSE,
     indexesToSign |-> indexesToSign]

\* part_000 line 291: the group as the caller gave it.
BeforeSignArgs(in) ==
    [txns |-> in.txnGroup, nested |-> in.nested, indexesToSign |-> in.indexesToSign]

\* Failures of signTransactions before it classifies the group:
\* initializeEvmSdk rejects, a blob does not decode.
EarlyFailures == {"SdkInitError", "DecodeError"}

---------------------------------------------------------------------------
(* signTransactions, up to its first await on the provider *)

\* The map after the fallback of part_000: every persisted account that
\* carries metadata.evmAddress is set again.
RECURSIVE rebuildFrom(_, _)
rebuildFrom(map, accounts) ==
    IF accounts = <<>> THEN map
    ELSE LET account == Head(accounts)
             next == IF account.evmAddress # Absent
                     THEN [map EXCEPT ![account.address] = account.evmAddress]
                     ELSE map
         IN  rebuildFrom(next, Tail(accounts))

\* The call's locals once the group is flattened and classified.
Classified(in, flat, txnsToSign) ==
    [NoCall EXCEPT !.nested = in.nested,
                   !.encoded = in.encoded,
                   !.txnGroup = in.txnGroup,
                   !.indexesToSign = in.indexesToSign,
                   !.flatTxns = flat,
                   !.txnsToSign = txnsToSign]

\* The await that follows the source-address resolution: the chain guard
\* of the adapter, or for MetaMask the signing call itself.
AfterResolve ==
    CASE wallet = "MetaMask" -> "signTxn"
      [] wallet = "RainbowKitSoftGuard" -> "getAccount"
      [] OTHER -> "eth_chainId"

\* liquid-evm-base.ts signTransactions, lines 245-278.
BaseSignTransactions(in) ==
    LET flat == flattenTxnGroup(in.nested, in.txnGroup)
        txnsToSign == IF ~in.encoded
                      THEN BaseProcessTxns(flat, in.indexesToSign)
                      ELSE BaseProcessEncodedTxns(flat, in.indexesToSign)
        c == Classified(in, flat, txnsToSign)
    IN  IF txnsToSign = <<>>
        THEN \* firstTxn is undefined: firstTxn.txn throws a TypeError
             /\ pc' = "done"
             /\ \E threw \in AfterSignThrows :
                   call' = catchBlock(c, "TypeError", 0, threw)
             /\ UNCHANGED evmAddressMap
        ELSE LET algorandAddress == txnsToSign[1].txn.sender
                 evmAddress == evmAddressMap[algorandAddress]
             IN  /\ UNCHANGED evmAddressMap
                 /\ IF evmAddress = Absent
                    THEN /\ pc' = "done"
                         /\ \E threw \in AfterSignThrows :
                               call' = catchBlock(c, "NoEvmAddress", 0, threw)
                    ELSE IF onBeforeSign
                    THEN /\ pc' = "onBeforeSign"
                         /\ call' = [c EXCEPT !.evmAddress = evmAddress,
                                      !.beforeSign = <<BaseBeforeSignArgs(
                                                         txnsToSign, in.indexesToSign)>>]
                    ELSE /\ pc' = AfterResolve
                         /\ call' = [c EXCEPT !.evmAddress = evmAddress]

\* part_000 signTransactions, lines 237-295; part_002 (MetaMask), lines
\* 329-364, is the same without the fallback.
AltSignTransactions(in) ==
    LET flat == flattenTxnGroup(in.nested, in.txnGroup)
        txnsToSign == IF ~in.encoded
                      THEN processTxns(flat, in.indexesToSign)
                      ELSE processEncodedTxns(flat, in.indexesToSign)
        c == Classified(in, flat, txnsToSign)
    IN  IF Len(txnsToSign) = 0
        THEN /\ pc' = "done"
             /\ call' = [c EXCEPT !.result = [k \in 1..Len(flat) |-> NullBlob]]
             /\ UNCHANGED evmAddressMap
        ELSE LET algorandAddress == txnsToSign[1].sender
                 found == evmAddressMap[algorandAddress]
                 rebuild == HasFallback /\ found = Absent /\ store.exists
                 map == IF rebuild
                        THEN rebuildFrom(evmAddressMap, store.accounts)
                        ELSE evmAddressMap
                 evmAddress == map[algorandAddress]
             IN  /\ evmAddressMap' = map
                 /\ IF evmAddress = Absent
                    THEN /\ pc' = "done"
                         /\ \E threw \in AfterSignThrows :
                               call' = catchBlock(c, "NoEvmAddress", 0, threw)
                    ELSE IF onBeforeSign
                    THEN /\ pc' = "onBeforeSign"
                         /\ call' = [c EXCEPT !.evmAddress = evmAddress,
                                      !.beforeSign = <<BeforeSignArgs(in)>>]
                    ELSE /\ pc' = AfterResolve
                         /\ call' = [c EXCEPT !.evmAddress = evmAddress]

\* The call fails before the group is classified.
FailsEarly ==
    /\ pc' = "done"
    /\ \E error \in EarlyFailures, threw \in AfterSignThrows :
          call' = catchBlock([NoCall EXCEPT !.encoded = (error = "DecodeError")],
                             error, 0, threw)
    /\ UNCHANGED evmAddressMap

SignTransactions ==
    /\ pc = "idle"
    /\ \/ \E in \in SignInputs :
             IF wallet = "Rainbow"
             THEN BaseSignTransactions(in)
             ELSE AltSignTransactions(in)
       \/ FailsEarly
    /\ last' = [NoLast EXCEPT !.op = "signTransactions"]
    /\ UNCHANGED <<wallet, store, uiHooks, sessionVars>>

\* The awaited onBeforeSign resolves, or rejects: the rejection is caught
\* by the catch block of signTransactions.
OnBeforeSign ==
    /\ pc = "onBeforeSign"
    /\ \/ /\ pc' = AfterResolve
          /\ UNCHANGED call
       \/ /\ pc' = "done"
          /\ \E threw \in AfterSignThrows :
                call' = catchBlock(call, "HookError", 0, threw)
    /\ UNCHANGED <<wallet, store, evmAddressMap, uiHooks, last, sessionVars>>

---------------------------------------------------------------------------
(* ChainGuard: ensureAlgorandChain *)

Logged(method, reply, code) ==
    [call EXCEPT !.rpcLog = Append(@, [method |-> method, reply |-> reply, code |-> code])]

\* liquid-evm-base.ts line 104: the reply is compared as it is.
BaseOnAlgorandChain(currentChainId) == currentChainId = ALGORAND_CHAIN_ID_HEX

\* part_000 line 96: the reply is compared in lower case.
OnAlgorandChain(currentChainId) ==
    toLowerCase(currentChainId) = toLowerCase(ALGORAND_CHAIN_ID_HEX)

\* liquid-evm-base.ts line 119: 4902 alone means "chain not added".
BaseChainUnknown(code) == code = 4902

\* A test that takes every switch failure for "chain not added".
chainUnknownAny(code) == code \in SwitchErrorCodes

\* part_000 line 111: the codes that mean "chain not added".
chainUnknown(code) == code \in {4902, -32600, -32603}

\* provider.request({ method: 'eth_chainId' }) answers.
EthChainId ==
    /\ pc = "eth_chainId"
    /\ \E currentChainId \in ChainIdReplies :
          LET onChain == IF wallet = "Rainbow"
                         THEN BaseOnAlgorandChain(currentChainId)
                         ELSE OnAlgorandChain(currentChainId)
          IN  /\ call' = Logged("eth_chainId", currentChainId, 0)
              /\ pc' = IF onChain THEN "signTxn" ELSE "wallet_switchEthereumChain"
    /\ UNCHANGED <<wallet, store, evmAddressMap, uiHooks, last, sessionVars>>

\* provider.request({ method: 'wallet_switchEthereumChain' }) succeeds.
SwitchEthereumChainOk ==
    /\ pc = "wallet_switchEthereumChain"
    /\ call' = Logged("wallet_switchEthereumChain", "ok", 0)
    /\ pc' = "signTxn"
    /\ UNCHANGED <<wallet, store, evmAddressMap, uiHooks, last, sessionVars>>

\* provider.request({ method: 'wallet_switchEthereumChain' }) throws.
SwitchEthereumChainFails ==
    /\ pc = "wallet_switchEthereumChain"
    /\ \E code \in SwitchErrorCodes :
          LET unknown == IF wallet = "Rainbow"
                         THEN BaseChainUnknown(code)
                         ELSE chainUnknown(code)
              logged == Logged("wallet_switchEthereumChain", "error", code)
          IN  IF unknown
              THEN /\ call' = logged
                   /\ pc' = "wallet_addEthereumChain"
              ELSE /\ \E threw \in AfterSignThrows :
                         call' = catchBlock(logged, "SwitchError", code, threw)
                   /\ pc' = "done"
    /\ UNCHANGED <<wallet, store, evmAddressMap, uiHooks, last, sessionVars>>

\* provider.request({ method: 'wallet_addEthereumChain' }) succeeds or
\* throws; its error is not caught by the guard.
AddEthereumChain ==
    /\ pc = "wallet_addEthereumChain"
    /\ \/ /\ call' = Logged("wallet_addEthereumChain", "ok", 0)
          /\ pc' = "signTxn"
       \/ /\ \E threw \in AfterSignThrows :
                call' = catchBlock(Logged("wallet_addEthereumChain", "error", 4001),
                                   "AddError", 4001, threw)
          /\ pc' = "done"
    /\ UNCHANGED <<wallet, store, evmAddressMap, uiHooks, last, sessionVars>>

\* part_003 lines 437-440: the override reads wagmi's account state.
GetAccount ==
    /\ pc = "getAccount"
    /\ \E chainId \in WagmiChainIds :
          /\ call' = Logged("getAccount", "chainId", chainId)
          /\ pc' = IF chainId = ALGORAND_CHAIN_ID THEN "signTxn" ELSE "switchChain"
    /\ UNCHANGED <<wallet, store, evmAddressMap, uiHooks, last, sessionVars>>

\* A switchChain whose failure reaches the catch block of signTransactions.
SwitchChainRethrowing ==
    /\ pc = "switchChain"
    /\ \/ /\ call' = Logged("switchChain", "ok", 0)
          /\ pc' = "signTxn"
       \/ /\ \E threw \in AfterSignThrows :
                call' = catchBlock(Logged("switchChain", "error", 4001),
                                   "SwitchError", 4001, threw)
          /\ pc' = "done"
    /\ UNCHANGED <<wallet, store, evmAddressMap, uiHooks, last, sessionVars>>

\* part_003 lines 444-450: a failing switchChain is logged and swallowed.
SwitchChain ==
    /\ pc = "switchChain"
    /\ \/ call' = Logged("switchChain", "ok", 0)
       \/ call' = Logged("switchChain", "error", 4001)
    /\ pc' = "signTxn"
    /\ UNCHANGED <<wallet, store, evmAddressMap, uiHooks, last, sessionVars>>

---------------------------------------------------------------------------
(* SigningOrchestrator: the batched signature call and the reassembly *)

\* The blob the Liquid EVM SDK makes of a transaction for an EVM signer.
SignedBlob(txn, evmAddress) == [of |-> txn.id, by |-> evmAddress]

\* The TransactionSigner of liquidEvmSdk.getSigner: one blob per index it
\* is asked to sign, in the order of the indexes.
evmSigner(allTxns, signIndexes, evmAddress) ==
    [j \in 1..Len(signIndexes) |-> SignedBlob(allTxns[signIndexes[j] + 1], evmAddress)]

\* evmSdk.signTxn({ evmAddress, txns }): one blob per transaction.
signTxn(txns, evmAddress) ==
    [k \in 1..Len(txns) |-> SignedBlob(txns[k], evmAddress)]

\* A reassembly whose counter signedIdx never advances.
RECURSIVE BaseResultStuck(_, _, _, _, _)
BaseResultStuck(n, signIndexes, signedBlobs, k, signedIdx) ==
    IF k > n THEN <<>>
    ELSE IF (k - 1) \in Range(signIndexes)
         THEN <<signedBlobs[signedIdx + 1]>>
                \o BaseResultStuck(n, signIndexes, signedBlobs, k + 1, signedIdx)
         ELSE <<NullBlob>>
                \o BaseResultStuck(n, signIndexes, signedBlobs, k + 1, signedIdx)

\* liquid-evm-base.ts lines 305-311: the blobs are consumed in order by
\* the running counter signedIdx.
RECURSIVE BaseResult(_, _, _, _, _)
BaseResult(n, signIndexes, signedBlobs, k, signedIdx) ==
    IF k > n THEN <<>>
    ELSE IF (k - 1) \in Range(signIndexes)
         THEN <<signedBlobs[signedIdx + 1]>>
                \o BaseResult(n, signIndexes, signedBlobs, k + 1, signedIdx + 1)
         ELSE <<NullBlob>>
                \o BaseResult(n, signIndexes, signedBlobs, k + 1, signedIdx)

\* part_000 lines 313-322 (part_002 lines 374-383): the blob of the same
\* index, for an entry that matches the filter and whose sender is ours.
AltResult(flatTxns, indexesToSign, signedBlobs) ==
    [k \in 1..Len(flatTxns) |->
        LET canSignTxn == flatTxns[k].sender \in Range(addresses)
        IN  IF isIndexMatch(indexesToSign, k - 1) /\ canSignTxn
            THEN signedBlobs[k]
            ELSE NullBlob]

\* A signature call made for the source address of the last entry's
\* sender.
SignCallForLastSender(txns, indexes) ==
    LET sender == txns[Len(txns)].sender
    IN  [evmAddress |-> IF sender \in DOMAIN evmAddressMap
                        THEN evmAddressMap[sender] ELSE Absent,
         txns |-> txns, indexes |-> indexes]

\* What the signature capability is called with: the source address
\* resolved for the call, the transactions, the indexes to sign.
SignCall(txns, indexes) ==
    [evmAddress |-> call.evmAddress, txns |-> txns, indexes |-> indexes]

\* A signWithProvider that lets the provider's error through as it is.
signWithProviderRaw(code) == [error |-> "ProviderError", code |-> code]

\* part_001 lines 138-143, part_002 lines 163-168: the error a failing
\* signature request ends in.  Code 4001 becomes a new Error('User
\* rejected the signing request'), which carries no code.
signWithProvider(code) ==
    IF code = 4001
    THEN [error |-> "UserRejected", code |-> 0]
    ELSE [error |-> "ProviderError", code |-> code]

\* part_003 lines 129-144 and 418-431: wagmi's signTypedData is returned
\* with no catch, its error is the provider's.
signTypedData(code) == [error |-> "ProviderError", code |-> code]

\* A signature call that returns its blobs and tells onAfterSign of a
\* failure.
BaseSignTxnOkToldFailure ==
    LET allTxns == [k \in 1..Len(call.txnsToSign) |-> call.txnsToSign[k].txn]
        signIndexes == IndexesWhere([k \in 1..Len(call.txnsToSign) |->
                                        call.txnsToSign[k].sign], 1)
        signedBlobs == evmSigner(allTxns, signIndexes, call.evmAddress)
    IN  \E threw \in AfterSignThrows :
          call' = [invokeAfterSign(Logged("signature", "ok", 0), FALSE, "", threw)
                     EXCEPT
                       !.signCalls = Append(@, SignCall(allTxns,
                                        [given |-> TRUE, list |-> signIndexes])),
                       !.result = BaseResult(Len(call.txnsToSign), signIndexes,
                                             signedBlobs, 1, 0)]

\* liquid-evm-base.ts lines 280-314.
BaseSignTxnOk ==
    LET allTxns == [k \in 1..Len(call.txnsToSign) |-> call.txnsToSign[k].txn]
        signIndexes == IndexesWhere([k \in 1..Len(call.txnsToSign) |->
                                        call.txnsToSign[k].sign], 1)
        signedBlobs == evmSigner(allTxns, signIndexes, call.evmAddress)
    IN  \E threw \in AfterSignThrows :
          call' = [invokeAfterSign(Logged("signature", "ok", 0), TRUE, "", threw)
                     EXCEPT
                       !.signCalls = Append(@, SignCall(allTxns,
                                        [given |-> TRUE, list |-> signIndexes])),
                       !.result = BaseResult(Len(call.txnsToSign), signIndexes,
                                             signedBlobs, 1, 0)]

\* part_000 lines 297-325, part_002 lines 366-386.
AltSignTxnOk ==
    LET flatTxns == [k \in 1..Len(call.flatTxns) |-> decodeTxn(call.flatTxns[k])]
        signedBlobs == signTxn(flatTxns, call.evmAddress)
    IN  \E threw \in AfterSignThrows :
          call' = [invokeAfterSign(Logged("signature", "ok", 0), TRUE, "", threw)
                     EXCEPT
                       !.signCalls = Append(@, SignCall(flatTxns,
                                        [given |-> FALSE, list |-> <<>>])),
                       !.result = AltResult(flatTxns, call.indexesToSign, signedBlobs)]

\* A signature call that, once signed, unsets the active account.
SignTxnOkUnsetting ==
    /\ pc = "signTxn"
    /\ IF wallet = "Rainbow" THEN BaseSignTxnOk ELSE AltSignTxnOk
    /\ pc' = "done"
    /\ store' = [store EXCEPT !.activeAccount = Absent]
    /\ UNCHANGED <<wallet, evmAddressMap, uiHooks, last, sessionVars>>

\* The signature call returns the blobs.
SignTxnOk ==
    /\ pc = "signTxn"
    /\ IF wallet = "Rainbow" THEN BaseSignTxnOk ELSE AltSignTxnOk
    /\ pc' = "done"
    /\ UNCHANGED <<wallet, store, evmAddressMap, uiHooks, last, sessionVars>>

\* The signature request made by the signature call fails (the user
\* rejects the prompt, the provider errs): the catch block rethrows.
SignTxnFails ==
    /\ pc = "signTxn"
    /\ LET txns == IF wallet = "Rainbow"
                   THEN [k \in 1..Len(call.txnsToSign) |-> call.txnsToSign[k].txn]
                   ELSE [k \in 1..Len(call.flatTxns) |-> decodeTxn(call.flatTxns[k])]
           indexes == IF wallet = "Rainbow"
                      THEN [given |-> TRUE,
                            list |-> IndexesWhere([k \in 1..Len(call.txnsToSign) |->
                                                     call.txnsToSign[k].sign], 1)]
                      ELSE [given |-> FALSE, list |-> <<>>]
       IN  \E code \in SignErrorCodes, threw \in AfterSignThrows :
              LET failure == IF wallet \in {"Rainbow", "MetaMask"}
                             THEN signWithProvider(code)
                             ELSE signTypedData(code)
                  asked == [Logged("signature", "error", code)
                              EXCEPT !.signCalls = Append(@, SignCall(txns, indexes))]
              IN  call' = catchBlock(asked, failure.error, failure.code, threw)
    /\ pc' = "done"
    /\ UNCHANGED <<wallet, store, evmAddressMap, uiHooks, last, sessionVars>>

\* The caller takes the result (or the error) of the call.
Return ==
    /\ pc = "done"
    /\ pc' = "idle"
    /\ call' = NoCall
    /\ UNCHANGED <<wallet, store, evmAddressMap, uiHooks, last, sessionVars>>

---------------------------------------------------------------------------
(* AddressBridge and the session *)

\* extractConnectorInfo (part_003 lines 152-158): the name and the icon of
\* the wagmi connector, each left out when the connector has none.
ConnectorNames == {"MetaMask", "Coinbase Wallet"}
ConnectorInfos ==
    {[name |-> n, icon |-> "icon.svg"] : n \in ConnectorNames}
        \cup {[name |-> Absent, icon |-> Absent]}
NoConnectorInfo == [name |-> Absent, icon |-> Absent]

\* deriveAlgorandAccounts, the account pushed for one address.  The
\* MetaMask adapter (part_002 lines 136-139) stores no metadata, the
\* named base class (lines 167-171) the EVM address only, part_000
\* (lines 166-168) the connector's name and icon too.
walletAccount(evmAddress, connectorInfo) ==
    LET kit == wallet \in {"RainbowKit", "RainbowKitSoftGuard"}
    IN  [address       |-> getAddress(evmAddress),
         evmAddress    |-> IF wallet = "MetaMask" THEN Absent ELSE evmAddress,
         connectorName |-> IF kit THEN connectorInfo.name ELSE Absent,
         connectorIcon |-> IF kit THEN connectorInfo.icon ELSE Absent]

\* deriveAlgorandAccounts: the accounts returned, for a connector that has
\* neither name nor icon.
deriveAlgorandAccounts(evmAddresses) ==
    [k \in 1..Len(evmAddresses) |->
        walletAccount(evmAddresses[k], NoConnectorInfo)]

\* The locals of a connect, resumeSession or disconnect call and what it
\* did so far; here, of no call.
NoOperation ==
    [ op             |-> "none",
      pc             |-> "done",            \* the await it is suspended at
      walletState    |-> NoSession,         \* resume: the session it read
      reported       |-> {},                \* what the connector answered it
      evmAddresses   |-> <<>>,              \* the addresses it derives from
      connectorInfo  |-> NoConnectorInfo,
      walletAccounts |-> <<>>,              \* the accounts derived so far
      did            |-> <<>>,              \* requests, store entry points, hooks
      error          |-> "none" ]           \* what it threw

\* A derivation that drops an entry it finds already set.
RECURSIVE derivedMapToggling(_, _)
derivedMapToggling(map, evmAddresses) ==
    IF evmAddresses = <<>> THEN map
    ELSE LET evmAddress == Head(evmAddresses)
             algorandAddress == getAddress(evmAddress)
         IN  derivedMapToggling(
                [map EXCEPT ![algorandAddress] =
                    IF map[algorandAddress] = evmAddress THEN Absent ELSE evmAddress],
                Tail(evmAddresses))

\* A derivation that sets the map for the first address only.
derivedMapFirstOnly(map, evmAddresses) ==
    IF evmAddresses = <<>> THEN map
    ELSE [map EXCEPT ![getAddress(Head(evmAddresses))] = Head(evmAddresses)]

\* deriveAlgorandAccounts: evmAddressMap.set for each address in turn.
RECURSIVE derivedMap(_, _)
derivedMap(map, evmAddresses) ==
    IF evmAddresses = <<>> THEN map
    ELSE derivedMap([map EXCEPT ![getAddress(Head(evmAddresses))] = Head(evmAddresses)],
                    Tail(evmAddresses))

\* src/store addWallet: the wallet's record is set.
addWallet(walletAccounts) ==
    [exists |-> TRUE, accounts |-> walletAccounts,
     activeAccount |-> walletAccounts[1].address]

\* A comparison that takes the order of the accounts into account.
compareAccountsInOrder(accounts, compareTo) ==
    [k \in DOMAIN accounts |-> accounts[k].address]
        = [k \in DOMAIN compareTo |-> compareTo[k].address]

\* src/utils compareAccounts: the two lists hold the same set of
\* addresses.
compareAccounts(accounts, compareTo) ==
    {accounts[k].address : k \in DOMAIN accounts}
        = {compareTo[k].address : k \in DOMAIN compareTo}

\* src/store setAccounts: the accounts are replaced; the active account
\* stays if it is still among them, else it is the first of them.
setAccounts(accounts) ==
    [exists |-> TRUE, accounts |-> accounts,
     activeAccount |-> IF \E k \in DOMAIN accounts :
                             accounts[k].address = store.activeAccount
                       THEN store.activeAccount
                       ELSE accounts[1].address]

\* What the derive call of an operation was given, found and returned.
Derived(op, persisted, evmAddresses, mapBefore) ==
    [NoLast EXCEPT !.op = op,
                   !.persisted = persisted,
                   !.evmAddresses = evmAddresses,
                   !.mapBefore = mapBefore,
                   !.walletAccounts = deriveAlgorandAccounts(evmAddresses)]

\* connect: the connector's addresses are derived and persisted.
connect ==
    \E evmAddresses \in ConnectorReports :
        /\ evmAddressMap' = derivedMap(evmAddressMap, evmAddresses)
        /\ store' = addWallet(deriveAlgorandAccounts(evmAddresses))
        /\ last' = Derived("connect", <<>>, evmAddresses, evmAddressMap)

\* connect is called between two signTransactions calls.
Connect ==
    /\ pc = "idle"
    /\ connect
    /\ UNCHANGED <<wallet, pc, call, uiHooks, sessionVars>>

\* A disconnect that forgets to clear the map.
DisconnectKeepingMap ==
    /\ pc = "idle"
    /\ UNCHANGED evmAddressMap
    /\ store' = NoSession
    /\ last' = [NoLast EXCEPT !.op = "disconnect", !.mapBefore = evmAddressMap]
    /\ UNCHANGED <<wallet, pc, call, uiHooks, sessionVars>>

\* disconnect: the map is cleared and BaseWallet.onDisconnect removes the
\* wallet's record from the store.
disconnect ==
    /\ evmAddressMap' = EmptyMap
    /\ store' = NoSession
    /\ last' = [NoLast EXCEPT !.op = "disconnect", !.mapBefore = evmAddressMap]

\* disconnect is called between two signTransactions calls.
Disconnect ==
    /\ pc = "idle"
    /\ disconnect
    /\ UNCHANGED <<wallet, pc, call, uiHooks, sessionVars>>

\* The page is reloaded: a new instance (evmAddressMap = new Map()) over
\* the persisted store.
Reload ==
    /\ pc = "idle"
    /\ evmAddressMap' = EmptyMap
    /\ last' = NoLast
    /\ UNCHANGED <<wallet, store, pc, call, uiHooks, sessionVars>>

\* What the connector reports at resume (eth_accounts, getAccount): the
\* connected addresses, or none.
ResumeReports == ConnectorReports \cup {<<>>}

\* liquid-evm-base.ts resumeWithAccounts, lines 341-358: the persisted
\* metadata is set into the map, the reported addresses are derived, the
\* store is written when the address sets differ.
BaseResumeWithAccounts(evmAddresses) ==
    LET rebuilt == rebuildFrom(evmAddressMap, store.accounts)
        walletAccounts == deriveAlgorandAccounts(evmAddresses)
        match == compareAccounts(walletAccounts, store.accounts)
    IN  /\ evmAddressMap' = derivedMap(rebuilt, evmAddresses)
        /\ store' = IF ~match THEN setAccounts(walletAccounts) ELSE store
        /\ last' = Derived("resume", store.accounts, evmAddresses, rebuilt)

\* part_000 resumeWithAccounts, lines 353-373: the store is always written.
resumeWithAccounts(evmAddresses) ==
    LET rebuilt == rebuildFrom(evmAddressMap, store.accounts)
        walletAccounts == deriveAlgorandAccounts(evmAddresses)
    IN  /\ evmAddressMap' = derivedMap(rebuilt, evmAddresses)
        /\ store' = setAccounts(walletAccounts)
        /\ last' = Derived("resume", store.accounts, evmAddresses, rebuilt)

\* part_002 resumeSession, lines 258-270: no rebuild from the store.
MetaMaskResumeWithAccounts(evmAddresses) ==
    LET walletAccounts == deriveAlgorandAccounts(evmAddresses)
        match == compareAccounts(walletAccounts, store.accounts)
    IN  /\ evmAddressMap' = derivedMap(evmAddressMap, evmAddresses)
        /\ store' = IF ~match THEN setAccounts(walletAccounts) ELSE store
        /\ last' = Derived("resume", store.accounts, evmAddresses, evmAddressMap)

\* The catch block of resumeSession: onDisconnect, then throw.
ResumeThrows(error) ==
    /\ store' = NoSession
    /\ UNCHANGED evmAddressMap
    /\ last' = [NoLast EXCEPT !.op = "resume", !.error = error,
                              !.persisted = store.accounts]

\* part_003 lines 321-323: accounts.map(metadata.evmAddress).filter(Boolean).
evmAddressesOf(accounts) ==
    LET evm == [k \in DOMAIN accounts |-> accounts[k].evmAddress]
    IN  SubseqWhere(evm, [k \in DOMAIN evm |-> evm[k] # Absent], 1)

\* The EVM addresses of the persisted accounts.
persistedEvmAddresses == evmAddressesOf(store.accounts)

\* resumeSession of the four adapters.
resumeSession ==
    IF ~store.exists
    THEN /\ UNCHANGED <<store, evmAddressMap>>
         /\ last' = [NoLast EXCEPT !.op = "resume"]
    ELSE \E report \in ResumeReports :
           CASE wallet = "Rainbow" ->
                  IF report = <<>>
                  THEN ResumeThrows("NoAccounts")
                  ELSE BaseResumeWithAccounts(report)
             [] wallet = "MetaMask" ->
                  IF report = <<>>
                  THEN ResumeThrows("NoAccounts")
                  ELSE MetaMaskResumeWithAccounts(report)
             [] wallet = "RainbowKit" ->
                  LET evmAddresses == IF report # <<>> THEN report
                                      ELSE persistedEvmAddresses
                  IN  IF evmAddresses = <<>>
                      THEN \* onDisconnect, return
                           /\ store' = NoSession
                           /\ UNCHANGED evmAddressMap
                           /\ last' = [NoLast EXCEPT !.op = "resume",
                                          !.persisted = store.accounts]
                      ELSE resumeWithAccounts(evmAddresses)
             [] wallet = "RainbowKitSoftGuard" ->
                  IF report = <<>>
                  THEN ResumeThrows("NotConnected")
                  ELSE resumeWithAccounts(report)

\* resumeSession is called between two signTransactions calls.
ResumeSession ==
    /\ pc = "idle"
    /\ resumeSession
    /\ UNCHANGED <<wallet, pc, call, uiHooks, sessionVars>>

\* No second signTransactions call.
NoParked == [pc |-> "idle", call |-> NoCall]

\* The operations that call initializeEvmSdk first thing.
SdkOperations == {"connect", "resume", "signTransactions"}

\* No operation is in initializeEvmSdk or holds a handle.
NoSdkCalls == [o \in SdkOperations |-> [pc |-> "idle", sdk |-> 0]]

---------------------------------------------------------------------------

Init ==
    /\ wallet \in Wallets
    /\ uiHooks \in HookConfigs
    /\ wallet = "MetaMask" => ~uiHooks.onBeforeSign
    /\ store = NoSession
    /\ evmAddressMap = EmptyMap
    /\ pc = "idle"
    /\ call = NoCall
    /\ last = NoLast
    /\ _connecting = FALSE
    /\ calls = EmptyBag
    /\ ended = NoOperation
    /\ liquidEvmSdk = 0
    /\ algorandClient = 0
    /\ sdkCalls = NoSdkCalls
    /\ parked = NoParked

Next ==
    \/ Connect
    \/ Disconnect
    \/ ResumeSession
    \/ Reload
    \/ SignTransactions
    \/ OnBeforeSign
    \/ EthChainId
    \/ SwitchEthereumChainOk
    \/ SwitchEthereumChainFails
    \/ AddEthereumChain
    \/ GetAccount
    \/ SwitchChain
    \/ SignTxnOk
    \/ SignTxnFails
    \/ Return

Spec == Init /\ [][Next]_vars

---------------------------------------------------------------------------
(* What the claims speak of *)

InFlight == pc # "idle"
Returned == pc = "done" /\ call.error = "none"
Threw == pc = "done" /\ call.error # "none"

\* The normalized input: the entries of the group in order, one level of
\* nesting removed.
Normalized ==
    IF call.nested THEN call.txnGroup[1] \o call.txnGroup[2] ELSE call.txnGroup

Indexes == 0..(Len(Normalized) - 1)

OwnedAddresses == {store.accounts[k].address : k \in DOMAIN store.accounts}

\* Eligibility as the data model states it.
IsEligible(i) ==
    /\ (call.indexesToSign.given => i \in call.indexesToSign.set)
    /\ Normalized[i + 1].sender \in OwnedAddresses
    /\ ~(call.encoded /\ Normalized[i + 1].signed)

EligibleIndexes == {i \in Indexes : IsEligible(i)}

\* The indexes the code classified as to be signed.
ClassifiedIndexes ==
    IF wallet = "Rainbow"
    THEN {k - 1 : k \in {j \in DOMAIN call.txnsToSign : call.txnsToSign[j].sign}}
    ELSE {call.txnsToSign[k].id : k \in DOMAIN call.txnsToSign}

\* The indexes an external signature call submits for signing: the ones it
\* names, or every entry when the call names none.
Submitted(signCall) ==
    IF signCall.indexes.given
    THEN Range(signCall.indexes.list)
    ELSE {k - 1 : k \in DOMAIN signCall.txns}

AllNull(result) == \A k \in DOMAIN result : result[k] = NullBlob

FirstEligible == CHOOSE i \in EligibleIndexes : \A j \in EligibleIndexes : i <= j

---------------------------------------------------------------------------
(* C1..C10 *)

\* C1: a signTransactions call that returns gives an array as long as the
\* normalized input, non-null at every eligible index and null at every
\* ineligible index.
C1_OutputShape ==
    Returned =>
        /\ Len(call.result) = Len(Normalized)
        /\ \A i \in Indexes :
              (call.result[i + 1] # NullBlob) <=> (i \in EligibleIndexes)

\* C2: a call on a group with no eligible entry ends at once with an
\* all-null array of the normalized length: no error, no external
\* signature call, no chain-guard request.
C2_NothingToSign ==
    (InFlight /\ EligibleIndexes = {} /\ call.error \notin EarlyFailures) =>
        /\ Returned
        /\ Len(call.result) = Len(Normalized)
        /\ AllNull(call.result)
        /\ call.signCalls = <<>>
        /\ call.rpcLog = <<>>

\* C3: in the result of a call that returns, the blob at an eligible index
\* i is the signed form of the entry at index i; for entries 0 and 2 ours,
\* entry 1 another party's and no filter, the classified set is {0,2} and
\* the result is [blob0, null, blob2].
ScenarioB ==
    /\ Len(Normalized) = 3
    /\ ~call.indexesToSign.given
    /\ Normalized[1].sender \in OwnedAddresses
    /\ Normalized[2].sender \notin OwnedAddresses
    /\ Normalized[3].sender \in OwnedAddresses
    /\ ~(call.encoded /\ (Normalized[1].signed \/ Normalized[3].signed))

C3_PositionCorrect ==
    Returned =>
        /\ \A i \in EligibleIndexes :
              /\ i + 1 \in DOMAIN call.result
              /\ call.result[i + 1] # NullBlob
              /\ call.result[i + 1].of = Normalized[i + 1].id
        /\ ScenarioB =>
              /\ ClassifiedIndexes = {0, 2}
              /\ call.result[1].of = Normalized[1].id
              /\ call.result[2] = NullBlob
              /\ call.result[3].of = Normalized[3].id

\* A returned call on the group of scenario B, through a signature call.
C3_Witness ==
    /\ Returned
    /\ ScenarioB
    /\ Len(call.signCalls) = 1
    /\ call.result[1] # NullBlob /\ call.result[3] # NullBlob

\* C4: a call with an eligible entry that returns has issued exactly one
\* external signature call, on the whole normalized sequence, and has
\* submitted exactly the eligible indexes for signing.
C4_OneBatchedCall ==
    (Returned /\ EligibleIndexes # {}) =>
        /\ Len(call.signCalls) = 1
        /\ Len(call.signCalls[1].txns) = Len(Normalized)
        /\ \A k \in DOMAIN Normalized :
              call.signCalls[1].txns[k].id = Normalized[k].id
        /\ Submitted(call.signCalls[1]) = EligibleIndexes

\* C5: the code classifies index i as to be signed iff i passes the filter
\* (or there is none), the sender is ours and, on the encoded path, the
\* entry is not signed already; with a filter, nothing outside it.
C5_Classification ==
    InFlight =>
        /\ ClassifiedIndexes = EligibleIndexes
        /\ call.indexesToSign.given => ClassifiedIndexes \subseteq call.indexesToSign.set

\* An encoded group under a filter with: an entry classified, an owned
\* entry outside the filter, and an owned signed entry inside it.
C5_Witness ==
    /\ InFlight
    /\ call.encoded
    /\ call.indexesToSign.given
    /\ ClassifiedIndexes # {}
    /\ \E i \in Indexes :
          /\ i \notin call.indexesToSign.set
          /\ Normalized[i + 1].sender \in OwnedAddresses
          /\ ~Normalized[i + 1].signed
    /\ \E i \in Indexes :
          /\ i \in call.indexesToSign.set
          /\ Normalized[i + 1].sender \in OwnedAddresses
          /\ Normalized[i + 1].signed

\* C6: on the encoded path an entry already signed is never submitted for
\* signing and its place in the result is null.
C6_SignedNeverResigned ==
    \A i \in Indexes :
        (InFlight /\ call.encoded /\ Normalized[i + 1].signed) =>
            /\ \A k \in DOMAIN call.signCalls : i \notin Submitted(call.signCalls[k])
            /\ Returned => call.result[i + 1] = NullBlob

\* C7: the source address of the call is the one mapped to the sender of
\* the first eligible entry, and the call does not fail for want of it
\* when the map holds it.
C7_FirstEligibleSigner ==
    (InFlight /\ EligibleIndexes # {}
        /\ evmAddressMap[Normalized[FirstEligible + 1].sender] # Absent) =>
        /\ call.error \notin {"NoEvmAddress", "TypeError"}
        /\ call.evmAddress = evmAddressMap[Normalized[FirstEligible + 1].sender]

\* C8: when the map lacks the sender of the first eligible entry, the call
\* fails with the no-source-address error only if that sender is absent
\* from the persisted accounts' metadata too.
C8_FallbackBeforeFailure ==
    (Threw /\ call.error = "NoEvmAddress" /\ EligibleIndexes # {}
        /\ evmAddressMap[Normalized[FirstEligible + 1].sender] = Absent) =>
        \A k \in DOMAIN store.accounts :
            ~(/\ store.accounts[k].address = Normalized[FirstEligible + 1].sender
              /\ store.accounts[k].evmAddress # Absent)

\* C9: when an external signature call has been issued, the chain guard
\* has completed successfully before it: the network id read was the
\* target's, or a switch or add request succeeded.
GuardSucceeded ==
    \E k \in DOMAIN call.rpcLog :
        LET e == call.rpcLog[k]
        IN  \/ e.method = "eth_chainId" /\ toLowerCase(e.reply) = ALGORAND_CHAIN_ID_HEX
            \/ e.method = "getAccount" /\ e.code = ALGORAND_CHAIN_ID
            \/ e.method \in {"wallet_switchEthereumChain", "wallet_addEthereumChain",
                             "switchChain"} /\ e.reply = "ok"

C9_GuardBeforeSignature ==
    (pc = "signTxn" \/ call.signCalls # <<>>) => GuardSucceeded

\* C10: the default guard makes no switch or add request when the id read
\* is the target's; otherwise exactly one switch request, and one add
\* request iff the switch failed with 4902, -32600 or -32603, after which
\* the guard does not fail with the switch error.
Requests(method) == {k \in DOMAIN call.rpcLog : call.rpcLog[k].method = method}

C10_GuardRequests ==
    LET reads == Requests("eth_chainId")
        switches == Requests("wallet_switchEthereumChain")
        adds == Requests("wallet_addEthereumChain")
        guardOver == pc \in {"signTxn", "done"}
        unregistered == \E k \in switches :
                           /\ call.rpcLog[k].reply = "error"
                           /\ call.rpcLog[k].code \in {4902, -32600, -32603}
    IN  (wallet \in {"Rainbow", "RainbowKit"} /\ reads # {}) =>
            /\ Cardinality(reads) = 1
            /\ Cardinality(switches) <= 1 /\ Cardinality(adds) <= 1
            /\ (\E k \in reads : call.rpcLog[k].reply = ALGORAND_CHAIN_ID_HEX) =>
                  switches = {} /\ adds = {}
            /\ (guardOver /\ \E k \in reads :
                    toLowerCase(call.rpcLog[k].reply) # ALGORAND_CHAIN_ID_HEX) =>
                  Cardinality(switches) = 1
            /\ adds # {} => unregistered
            /\ (unregistered /\ guardOver) =>
                  adds # {} /\ call.error # "SwitchError"

---------------------------------------------------------------------------
(* C11..C15 *)

\* C11: with the default chain guard, a switch request that fails with a
\* code other than 4902, -32600 and -32603 makes signTransactions throw
\* that very error, code included: no add-network request, no external
\* signature call, no result.
C11_SwitchErrorRethrown ==
    \A k \in Requests("wallet_switchEthereumChain") :
        (call.rpcLog[k].reply = "error"
            /\ call.rpcLog[k].code \notin {4902, -32600, -32603}) =>
            /\ Threw
            /\ call.error = "SwitchError"
            /\ call.errorCode = call.rpcLog[k].code
            /\ Requests("wallet_addEthereumChain") = {}
            /\ call.signCalls = <<>>
            /\ call.result = <<>>

\* A call thrown out of by a switch failure of code 4001.
C11_Witness ==
    /\ Threw
    /\ call.error = "SwitchError"
    /\ call.errorCode = 4001
    /\ \E k \in Requests("wallet_switchEthereumChain") :
          call.rpcLog[k].reply = "error" /\ call.rpcLog[k].code = 4001

\* The entries onBeforeSign was given, in order.
BeforeSignIds(args) ==
    LET flat == IF args.nested THEN args.txns[1] \o args.txns[2] ELSE args.txns
    IN  [k \in 1..Len(flat) |-> flat[k].id]

\* C12: with onBeforeSign set, a call on a group with an eligible entry
\* invokes the hook exactly once, with every entry of the group and the
\* index filter; while the hook is pending no provider request and no
\* signature call has been made; if the hook fails the call throws the
\* hook's error and neither the guard nor the signature call has run.
C12_BeforeSignHook ==
    (onBeforeSign /\ InFlight /\ EligibleIndexes # {}) =>
        /\ Len(call.beforeSign) = 1
        /\ BeforeSignIds(call.beforeSign[1]) =
              [k \in 1..Len(Normalized) |-> Normalized[k].id]
        /\ call.beforeSign[1].indexesToSign = call.indexesToSign
        /\ pc = "onBeforeSign" => call.rpcLog = <<>> /\ call.signCalls = <<>>
        /\ call.error = "HookError" =>
              Threw /\ call.rpcLog = <<>> /\ call.signCalls = <<>>

\* C13: a signTransactions call that throws has told onAfterSign (when
\* set) exactly once, with success = false and the message of the error
\* it throws, and gives no result array.
C13_AllOrNothing ==
    Threw =>
        /\ call.result = <<>>
        /\ onAfterSign =>
              /\ Len(call.afterSign) = 1
              /\ ~call.afterSign[1].success
              /\ call.afterSign[1].message = call.error
        /\ call.error = "SwitchError" =>
              call.errorCode = call.rpcLog[Len(call.rpcLog)].code

\* A call that fails at the signature request, with onAfterSign set.
C13_Witness ==
    /\ Threw
    /\ onAfterSign
    /\ Len(call.signCalls) = 1
    /\ call.afterSign # <<>>

\* C14: an onAfterSign that throws changes nothing: told of success, the
\* call still returns its result; told of a failure, the call throws the
\* error the hook was told of.
C14_AfterSignHookSwallowed ==
    \A k \in DOMAIN call.afterSign :
        call.afterSign[k].threw =>
            IF call.afterSign[k].success
            THEN /\ Returned
                 /\ Len(call.result) = Len(Normalized)
            ELSE /\ Threw
                 /\ call.error = call.afterSign[k].message

\* A call that returns signed blobs although onAfterSign(true) threw.
C14_Witness ==
    /\ Returned
    /\ Len(call.afterSign) = 1
    /\ call.afterSign[1].success /\ call.afterSign[1].threw
    /\ \E i \in DOMAIN call.result : call.result[i] # NullBlob

\* C15: a signature request the user rejects (code 4001) makes the call
\* throw the 'user rejected' error; it was the only signature request of
\* the call and the last provider request of the call.
C15_UserRejection ==
    \A k \in Requests("signature") :
        (call.rpcLog[k].reply = "error" /\ call.rpcLog[k].code = 4001) =>
            /\ Threw
            /\ call.error = "UserRejected"
            /\ Cardinality(Requests("signature")) = 1
            /\ Len(call.signCalls) = 1
            /\ k = Len(call.rpcLog)

---------------------------------------------------------------------------
(* C16..C20 *)

\* The operation last called was a connect or a resume, and its derive
\* call has returned.
HasDerived == last.op \in {"connect", "resume"} /\ last.evmAddresses # <<>>

\* C16: after a derive call, the map takes the address of every account
\* returned back to the source address it was derived from, which is the
\* account's own metadata.evmAddress; and deriving any single source
\* address s maps its target address to s.
C16_RoundTrip ==
    /\ \A s \in EvmAddrs :
          derivedMap(evmAddressMap, <<s>>)[deriveAlgorandAccounts(<<s>>)[1].address] = s
    /\ HasDerived =>
          \A k \in DOMAIN last.walletAccounts :
              /\ evmAddressMap[last.walletAccounts[k].address] = last.evmAddresses[k]
              /\ evmAddressMap[last.walletAccounts[k].address]
                    = last.walletAccounts[k].evmAddress

\* C17: a derive call returns one account per source address, in the
\* order given, each carrying its source address as metadata.evmAddress;
\* a connect on the addresses 0xA, 0xB persists two accounts with the
\* metadata 0xA and 0xB, in that order.
C17_OnePerInputInOrder ==
    HasDerived =>
        /\ Len(last.walletAccounts) = Len(last.evmAddresses)
        /\ \A k \in DOMAIN last.walletAccounts :
              /\ last.walletAccounts[k].address = getAddress(last.evmAddresses[k])
              /\ last.walletAccounts[k].evmAddress = last.evmAddresses[k]
        /\ (last.op = "connect" /\ last.evmAddresses = <<"0xA", "0xB">>) =>
              /\ Len(store.accounts) = 2
              /\ store.accounts[1].evmAddress = "0xA"
              /\ store.accounts[2].evmAddress = "0xB"

C19_DisconnectClearsMap ==
    [][ /\ last'.op = "disconnect" => evmAddressMap' = EmptyMap
        /\ (evmAddressMap = EmptyMap /\ evmAddressMap' # EmptyMap) =>
              last'.op \in {"connect", "resume", "signTransactions"} ]_vars

\* A disconnect called on a map that had entries.
C19_Witness ==
    /\ last.op = "disconnect"
    /\ last.mapBefore # EmptyMap
    /\ evmAddressMap = EmptyMap

\* C20: after a resume that completed, every entry of the map comes from
\* the metadata of an account that was persisted when the resume began or
\* from a source address the connector reported to it.
C20_ResumeRebuildsMap ==
    (last.op = "resume" /\ last.error = "none" /\ last.evmAddresses # <<>>) =>
        \A a \in AlgoAddrs :
            evmAddressMap[a] # Absent =>
                \/ \E k \in DOMAIN last.persisted :
                      /\ last.persisted[k].address = a
                      /\ last.persisted[k].evmAddress = evmAddressMap[a]
                \/ \E k \in DOMAIN last.evmAddresses :
                      /\ getAddress(last.evmAddresses[k]) = a
                      /\ last.evmAddresses[k] = evmAddressMap[a]

---------------------------------------------------------------------------
(* connect, resumeSession and disconnect, await by await *)

IsKit == wallet \in {"RainbowKit", "RainbowKitSoftGuard"}

\* notifyConnect: options.uiHooks?.onConnect ?? managerUIHooks?.onConnect.
\* The MetaMask adapter never calls it.
onConnect == wallet # "MetaMask" /\ uiHooks.onConnect

\* One thing a call did that another party sees: a request to the
\* connector, a getAddress call, a store entry point, a hook.
Did(e, accounts, evmAddress, algorandAddress) ==
    [e |-> e, accounts |-> accounts,
     evmAddress |-> evmAddress, algorandAddress |-> algorandAddress]

Requested == Did("request", <<>>, Absent, Absent)
AsksAddress(evmAddress) == Did("getAddress", <<>>, evmAddress, Absent)
DidOnDisconnect == Did("onDisconnect", <<>>, Absent, Absent)

\* The calls in progress.
InProgress == BagToSet(calls)

\* A call begins and is suspended at an await.
Begins(operation) ==
    /\ calls' = calls (+) SetToBag({operation})
    /\ ended' = NoOperation

\* A call goes from one await to the next.
Goes(from, operation) ==
    /\ calls' = (calls (-) SetToBag({from})) (+) SetToBag({operation})
    /\ ended' = NoOperation

\* A call returns or throws.
Ends(from, operation) ==
    /\ calls' = calls (-) SetToBag({from})
    /\ ended' = [operation EXCEPT !.pc = "done"]

\* What the connector can answer a connect or a resume with: the
\* connected addresses and, from wagmi, the connector's name and icon.
ConnectorAnswers ==
    [addresses : ResumeReports,
     connectorInfo : IF IsKit THEN ConnectorInfos ELSE {NoConnectorInfo}]

\* resumeSession (part_001 lines 233-237, part_002 lines 273-277, part_003
\* lines 627-631) catches what is thrown and calls onDisconnect; the
\* resumeSession of part_003 lines 289-349 has no catch.
CatchesResume == wallet # "RainbowKit"

\* A call that, when it throws, persists the accounts derived so far.
ThrowsPersisting(from, operation, error) ==
    LET disconnects == operation.op = "resume" /\ CatchesResume
    IN  /\ Ends(from, [operation EXCEPT !.error = error,
                                        !.did = IF disconnects
                                                THEN Append(@, DidOnDisconnect)
                                                ELSE @])
        /\ store' = IF operation.walletAccounts # <<>>
                    THEN addWallet(operation.walletAccounts)
                    ELSE IF disconnects THEN NoSession ELSE store
        /\ _connecting' = IF operation.op = "connect" /\ wallet = "RainbowKit"
                          THEN FALSE ELSE _connecting
        /\ UNCHANGED evmAddressMap

\* A call ends throwing: the catch block of resumeSession, the finally
\* block of connect (part_003 lines 267-269).
Throws(from, operation, error) ==
    LET disconnects == operation.op = "resume" /\ CatchesResume
    IN  /\ Ends(from, [operation EXCEPT !.error = error,
                                        !.did = IF disconnects
                                                THEN Append(@, DidOnDisconnect)
                                                ELSE @])
        /\ store' = IF disconnects THEN NoSession ELSE store
        /\ _connecting' = IF operation.op = "connect" /\ wallet = "RainbowKit"
                          THEN FALSE ELSE _connecting
        /\ UNCHANGED evmAddressMap

\* A connect whose ignored duplicate call clears the flag.
ConnectStartClearing ==
    /\ BagCardinality(calls) < MaxCalls
    /\ IF wallet = "RainbowKit" /\ _connecting
       THEN /\ ended' = [NoOperation EXCEPT !.op = "connect"]
            /\ _connecting' = FALSE
            /\ UNCHANGED calls
       ELSE /\ Begins([NoOperation EXCEPT !.op = "connect",
                                          !.pc = "requestAccounts"])
            /\ _connecting' = (wallet = "RainbowKit")
    /\ UNCHANGED <<wallet, store, evmAddressMap, pc, call, uiHooks, last, sdkVars, parked>>

\* connect is called.  part_003 lines 235-239: a call made while
\* _connecting is set returns [] at once.
ConnectStart ==
    /\ BagCardinality(calls) < MaxCalls
    /\ IF wallet = "RainbowKit" /\ _connecting
       THEN /\ ended' = [NoOperation EXCEPT !.op = "connect"]
            /\ UNCHANGED <<calls, _connecting>>
       ELSE /\ Begins([NoOperation EXCEPT !.op = "connect",
                                          !.pc = "requestAccounts"])
            /\ _connecting' = (wallet = "RainbowKit")
    /\ UNCHANGED <<wallet, store, evmAddressMap, pc, call, uiHooks, last, sdkVars, parked>>

\* A resumeSession that clears the map when it finds no session.
ResumeStartClearing ==
    /\ BagCardinality(calls) < MaxCalls
    /\ IF ~store.exists
       THEN /\ ended' = [NoOperation EXCEPT !.op = "resume"]
            /\ evmAddressMap' = EmptyMap
            /\ UNCHANGED calls
       ELSE /\ Begins([NoOperation EXCEPT
                          !.op = "resume",
                          !.pc = "requestAccounts",
                          !.walletState = IF wallet = "Rainbow" THEN NoSession
                                          ELSE store])
            /\ UNCHANGED evmAddressMap
    /\ UNCHANGED <<wallet, store, pc, call, uiHooks, last, _connecting, sdkVars, parked>>

\* resumeSession is called: without a persisted session it returns.  The
\* session it read is used later by part_002 (line 259) and part_003
\* (lines 321-323, 333-340, 610-617).
ResumeStart ==
    /\ BagCardinality(calls) < MaxCalls
    /\ IF ~store.exists
       THEN /\ ended' = [NoOperation EXCEPT !.op = "resume"]
            /\ UNCHANGED calls
       ELSE Begins([NoOperation EXCEPT
                       !.op = "resume",
                       !.pc = "requestAccounts",
                       !.walletState = IF wallet = "Rainbow" THEN NoSession
                                       ELSE store])
    /\ UNCHANGED <<wallet, store, evmAddressMap, pc, call, uiHooks, last, _connecting, sdkVars, parked>>

\* The derive loop begins: getAddress is called for the first address.
Deriving(operation, evmAddresses, connectorInfo, walletState) ==
    [operation EXCEPT !.pc = "getAddress",
                      !.did = Append(@, AsksAddress(evmAddresses[1])),
                      !.evmAddresses = evmAddresses,
                      !.connectorInfo = connectorInfo,
                      !.walletState = walletState]

\* connect, once the connector answered: eth_requestAccounts (part_001
\* lines 157-164, part_002 lines 191-198) or getConnectedEvmAddresses
\* (part_003 lines 169-215 and 474-521), which throws when no EVM wallet
\* is connected.
ConnectAnswered(from, asked, answer) ==
    IF answer.addresses = <<>>
    THEN Throws(from, asked, IF IsKit THEN "NotConnected" ELSE "NoAccounts")
    ELSE /\ Goes(from, Deriving(asked, answer.addresses, answer.connectorInfo,
                                NoSession))
         /\ UNCHANGED <<store, evmAddressMap, _connecting>>

\* part_003 lines 333-340 and 610-617: without a live connector name the
\* first persisted account's connectorName and connectorIcon are taken.
persistedConnectorInfo(connectorInfo, walletState) ==
    IF connectorInfo.name = Absent /\ walletState.accounts # <<>>
    THEN LET first == walletState.accounts[1]
         IN  [name |-> IF first.connectorName # Absent
                       THEN first.connectorName ELSE connectorInfo.name,
              icon |-> IF first.connectorIcon # Absent
                       THEN first.connectorIcon ELSE connectorInfo.icon]
    ELSE connectorInfo

\* resumeWithAccounts up to its derive call (liquid-evm-base.ts lines
\* 333-347, part_000 lines 345-359): the store is read again; without a
\* session the call returns, else the map is rebuilt from the metadata.
ResumeWithAccountsBegins(from, asked, evmAddresses, connectorInfo) ==
    IF ~store.exists
    THEN /\ Ends(from, asked)
         /\ UNCHANGED <<store, evmAddressMap, _connecting>>
    ELSE /\ Goes(from, Deriving(asked, evmAddresses, connectorInfo, store))
         /\ evmAddressMap' = rebuildFrom(evmAddressMap, store.accounts)
         /\ UNCHANGED <<store, _connecting>>

\* resumeSession, once the connector answered (eth_accounts, reconnect and
\* getAccount).
ResumeAnswered(from, asked, answer) ==
    LET walletState == from.walletState
    IN  CASE wallet = "Rainbow" ->
               IF answer.addresses = <<>>
               THEN Throws(from, asked, "NoAccounts")
               ELSE ResumeWithAccountsBegins(from, asked, answer.addresses,
                                             NoConnectorInfo)
          [] wallet = "MetaMask" ->
               IF answer.addresses = <<>>
               THEN Throws(from, asked, "NoAccounts")
               ELSE /\ Goes(from, Deriving(asked, answer.addresses,
                                           NoConnectorInfo, walletState))
                    /\ UNCHANGED <<store, evmAddressMap, _connecting>>
          [] wallet = "RainbowKitSoftGuard" ->
               IF answer.addresses = <<>>
               THEN Throws(from, asked, "NotConnected")
               ELSE ResumeWithAccountsBegins(from, asked, answer.addresses,
                        persistedConnectorInfo(answer.connectorInfo, walletState))
          [] wallet = "RainbowKit" ->
               LET live == answer.addresses # <<>>
                   evmAddresses == IF live THEN answer.addresses
                                   ELSE evmAddressesOf(walletState.accounts)
                   connectorInfo == IF live THEN answer.connectorInfo
                                    ELSE NoConnectorInfo
               IN  IF evmAddresses = <<>>
                   THEN \* lines 325-329: onDisconnect, return
                        /\ Ends(from, [asked EXCEPT
                                          !.did = Append(@, DidOnDisconnect)])
                        /\ store' = NoSession
                        /\ UNCHANGED <<evmAddressMap, _connecting>>
                   ELSE ResumeWithAccountsBegins(from, asked, evmAddresses,
                            persistedConnectorInfo(connectorInfo, walletState))

\* The call was suspended on initializeProvider, initializeEvmSdk and
\* getProvider and then on the connector: one of the former throws, or
\* the connector is asked and answers; eth_requestAccounts and
\* eth_accounts can also be refused.
RequestAccounts ==
    /\ \E from \in InProgress :
          /\ from.pc = "requestAccounts"
          /\ LET asked == [from EXCEPT !.did = Append(@, Requested)]
             IN  \/ Throws(from, from, "InitError")
                 \/ \E answer \in ConnectorAnswers :
                       LET answered == [asked EXCEPT !.reported = {answer.addresses}]
                       IN  IF from.op = "connect"
                           THEN ConnectAnswered(from, answered, answer)
                           ELSE ResumeAnswered(from, answered, answer)
                 \/ /\ ~IsKit
                    /\ Throws(from, asked, "ProviderError")
    /\ UNCHANGED <<wallet, pc, call, uiHooks, last, sdkVars, parked>>

\* A connect that notifies the hook before it persists.
ConnectNotifiesFirst(from, walletAccounts) ==
    LET persisted == Did("addWallet", walletAccounts, Absent, walletAccounts[1].address)
        notified == Did("onConnect", <<>>, from.evmAddresses[1],
                        walletAccounts[1].address)
    IN  /\ store' = addWallet(walletAccounts)
        /\ Ends(from, [from EXCEPT
                          !.walletAccounts = walletAccounts,
                          !.did = @ \o (IF onConnect THEN <<notified, persisted>>
                                        ELSE <<persisted>>)])
        /\ _connecting' = IF wallet = "RainbowKit" THEN FALSE ELSE _connecting

\* connect after its derive call: addWallet, notifyConnect, return.
ConnectPersists(from, walletAccounts) ==
    LET persisted == Did("addWallet", walletAccounts, Absent, walletAccounts[1].address)
        notified == Did("onConnect", <<>>, from.evmAddresses[1],
                        walletAccounts[1].address)
    IN  /\ store' = addWallet(walletAccounts)
        /\ Ends(from, [from EXCEPT
                          !.walletAccounts = walletAccounts,
                          !.did = @ \o (IF onConnect THEN <<persisted, notified>>
                                        ELSE <<persisted>>)])
        /\ _connecting' = IF wallet = "RainbowKit" THEN FALSE ELSE _connecting

\* A resume that writes on a mismatch only, whatever the adapter.
WritesOnMismatch(walletAccounts, walletState) ==
    ~compareAccounts(walletAccounts, walletState.accounts)

\* Whether a resume writes the accounts it derived: on a mismatch
\* (liquid-evm-base.ts lines 350-358, part_002 lines 259-270), always
\* (part_000 lines 362-373).
WritesAccounts(walletAccounts, walletState) ==
    IsKit \/ ~compareAccounts(walletAccounts, walletState.accounts)

\* resume after its derive call: compareAccounts, the warning 'Session
\* accounts mismatch, updating accounts', setAccounts.
ResumeCompares(from, walletAccounts) ==
    LET match == compareAccounts(walletAccounts, from.walletState.accounts)
        writes == WritesAccounts(walletAccounts, from.walletState)
        warned == Did("mismatch", walletAccounts, Absent, Absent)
        written == Did("setAccounts", walletAccounts, Absent, Absent)
    IN  /\ store' = IF writes THEN setAccounts(walletAccounts) ELSE store
        /\ Ends(from, [from EXCEPT
                          !.walletAccounts = walletAccounts,
                          !.did = @ \o (IF match THEN <<>> ELSE <<warned>>)
                                    \o (IF writes THEN <<written>> ELSE <<>>)])
        /\ UNCHANGED _connecting

\* deriveAlgorandAccounts, one turn of the loop: getAddress answers, the
\* map is set, the account is pushed and getAddress is called for the
\* next address; after the last turn the caller goes on.  Or getAddress
\* throws.
GetAddress ==
    /\ \E from \in InProgress :
          /\ from.pc = "getAddress"
          /\ LET evmAddresses == from.evmAddresses
                 i == Len(from.walletAccounts) + 1
                 walletAccounts ==
                     Append(from.walletAccounts,
                            walletAccount(evmAddresses[i], from.connectorInfo))
             IN  \/ /\ evmAddressMap' =
                          [evmAddressMap EXCEPT
                              ![getAddress(evmAddresses[i])] = evmAddresses[i]]
                    /\ IF i < Len(evmAddresses)
                       THEN /\ Goes(from, [from EXCEPT
                                       !.walletAccounts = walletAccounts,
                                       !.did = Append(@, AsksAddress(evmAddresses[i + 1]))])
                            /\ UNCHANGED <<store, _connecting>>
                       ELSE IF from.op = "connect"
                            THEN ConnectPersists(from, walletAccounts)
                            ELSE ResumeCompares(from, walletAccounts)
                 \/ Throws(from, from, "DeriveError")
    /\ UNCHANGED <<wallet, pc, call, uiHooks, last, sdkVars, parked>>

\* disconnect is called.  part_001 lines 190-199 and part_002 lines
\* 220-230 clear the map and call onDisconnect at once; part_003 lines
\* 272-287 and 568-584 await wagmi's disconnect first.
DisconnectStart ==
    /\ BagCardinality(calls) < MaxCalls
    /\ IF IsKit
       THEN /\ Begins([NoOperation EXCEPT !.op = "disconnect",
                                          !.pc = "wagmiDisconnect"])
            /\ UNCHANGED <<store, evmAddressMap>>
       ELSE /\ ended' = [NoOperation EXCEPT !.op = "disconnect",
                                            !.did = <<DidOnDisconnect>>]
            /\ evmAddressMap' = EmptyMap
            /\ store' = NoSession
            /\ UNCHANGED calls
    /\ UNCHANGED <<wallet, pc, call, uiHooks, last, _connecting, sdkVars, parked>>

\* wagmi's disconnect comes back (what it throws is swallowed): the map is
\* cleared, onDisconnect is called.
WagmiDisconnect ==
    /\ \E from \in InProgress :
          /\ from.pc = "wagmiDisconnect"
          /\ Ends(from, [from EXCEPT !.did = Append(@, DidOnDisconnect)])
    /\ evmAddressMap' = EmptyMap
    /\ store' = NoSession
    /\ UNCHANGED <<wallet, pc, call, uiHooks, last, _connecting, sdkVars, parked>>

\* The page is reloaded: a new instance over the persisted store; the
\* calls of the old one are gone.
SessionReload ==
    /\ evmAddressMap' = EmptyMap
    /\ _connecting' = FALSE
    /\ calls' = EmptyBag
    /\ ended' = NoOperation
    /\ UNCHANGED <<wallet, store, pc, call, uiHooks, last, sdkVars, parked>>

\* The application sets its hooks on the adapters that take hooks.
SessionInit ==
    /\ wallet \in Wallets
    /\ uiHooks \in HookConfigs
    /\ uiHooks.onConnect = (wallet # "MetaMask")
    /\ store = NoSession
    /\ evmAddressMap = EmptyMap
    /\ pc = "idle"
    /\ call = NoCall
    /\ last = NoLast
    /\ _connecting = FALSE
    /\ calls = EmptyBag
    /\ ended = NoOperation
    /\ liquidEvmSdk = 0
    /\ algorandClient = 0
    /\ sdkCalls = NoSdkCalls
    /\ parked = NoParked

SessionNext ==
    \/ ConnectStart
    \/ ResumeStart
    \/ DisconnectStart
    \/ RequestAccounts
    \/ GetAddress
    \/ WagmiDisconnect
    \/ SessionReload

SessionSpec == SessionInit /\ [][SessionNext]_vars

---------------------------------------------------------------------------
(* What the session claims speak of *)

\* The kinds of things a call did.
DidKinds(operation) == {operation.did[k].e : k \in DOMAIN operation.did}

\* The things of one kind a call did, in order.
DidOf(operation, e) ==
    SubseqWhere(operation.did,
                [k \in DOMAIN operation.did |-> operation.did[k].e = e], 1)

\* The step is a call that began and ended at once.
EndsAtOnce(op) == ended'.op = op /\ calls' = calls /\ ended' # ended

\* The step ends the call from, which was in progress.
EndsFrom(from) == calls' = calls (-) SetToBag({from}) /\ ended'.op = from.op

\* C21: a resumeSession called while no session is persisted returns
\* without error and without accounts, having asked neither the connector
\* nor getAddress and called neither setAccounts nor onDisconnect, and
\* leaves the store and the map as they were; and a resume whose
\* resumeWithAccounts finds no session returns the same way, with nothing
\* derived and nothing written.
C21_ResumeWithoutSession ==
    [][ /\ (~store.exists /\ EndsAtOnce("resume")) =>
              /\ ended'.error = "none"
              /\ ended'.walletAccounts = <<>>
              /\ ended'.did = <<>>
              /\ store' = store
              /\ evmAddressMap' = evmAddressMap
        /\ \A from \in InProgress :
              ( /\ from.op = "resume" /\ from.pc = "requestAccounts"
                /\ ~store.exists
                /\ EndsFrom(from) /\ ended'.error = "none" ) =>
                  /\ ended'.walletAccounts = <<>>
                  /\ DidKinds(ended') \subseteq {"request"}
                  /\ store' = store
                  /\ evmAddressMap' = evmAddressMap ]_vars

\* A resume called without a session while the map holds entries.
C21_Witness ==
    /\ ended.op = "resume"
    /\ ended.did = <<>>
    /\ ended.error = "none"
    /\ ~store.exists
    /\ evmAddressMap # EmptyMap

\* The set of addresses of a list of accounts.
AddressSet(accounts) == {accounts[k].address : k \in DOMAIN accounts}

\* The last step ended a resume that derived its accounts and returned.
ResumeReturned ==
    ended.op = "resume" /\ ended.error = "none" /\ ended.walletAccounts # <<>>

\* C22: a resume that returns compares the accounts it derived with the
\* persisted accounts it read by the set of their addresses: when the
\* sets differ it warns of the mismatch and calls setAccounts once, with
\* the derived accounts, which are then the persisted ones; when the
\* sets are equal, in whatever order, it warns of no mismatch.
C22_CompareByAddressSet ==
    ResumeReturned =>
        IF AddressSet(ended.walletAccounts) # AddressSet(ended.walletState.accounts)
        THEN /\ Len(DidOf(ended, "mismatch")) = 1
             /\ DidOf(ended, "setAccounts")
                   = <<Did("setAccounts", ended.walletAccounts, Absent, Absent)>>
             /\ store.accounts = ended.walletAccounts
        ELSE DidOf(ended, "mismatch") = <<>>

\* A resume that found other addresses than the persisted ones, and one
\* more of them.
C22_Witness ==
    /\ ResumeReturned
    /\ Len(ended.walletAccounts) = 2
    /\ Len(ended.walletState.accounts) = 1
    /\ store.accounts = ended.walletAccounts

\* The connector's name or icon in the derived accounts is not the one in
\* the persisted accounts that the resume read.
ConnectorMetadataChanged ==
    LET derived == ended.walletAccounts[1]
        persisted == ended.walletState.accounts[1]
    IN  \/ derived.connectorName # persisted.connectorName
        \/ derived.connectorIcon # persisted.connectorIcon

\* C23: a resume that derives the persisted addresses again, from a
\* connector whose name or icon is no longer the persisted one, calls
\* setAccounts with the accounts it derived, and these carry the
\* connector's name and icon as they are now.
C23_MetadataRefresh ==
    ( /\ ResumeReturned
      /\ AddressSet(ended.walletAccounts) = AddressSet(ended.walletState.accounts)
      /\ ConnectorMetadataChanged ) =>
        /\ DidOf(ended, "setAccounts")
              = <<Did("setAccounts", ended.walletAccounts, Absent, Absent)>>
        /\ store.accounts = ended.walletAccounts
        /\ \A k \in DOMAIN store.accounts :
              /\ store.accounts[k].connectorName = ended.connectorInfo.name
              /\ store.accounts[k].connectorIcon = ended.connectorInfo.icon

\* A session persisted under the connector name "MetaMask" is resumed
\* with the same addresses under the name "Coinbase Wallet".
C23_Witness ==
    /\ ResumeReturned
    /\ AddressSet(ended.walletAccounts) = AddressSet(ended.walletState.accounts)
    /\ ended.walletState.accounts[1].connectorName = "MetaMask"
    /\ store.accounts[1].connectorName = "Coinbase Wallet"

\* C24: a resume that throws has called onDisconnect, as the last thing
\* it did, and leaves no persisted session.
C24_FailedResumeDisconnects ==
    (ended.op = "resume" /\ ended.error # "none") =>
        /\ ended.did # <<>>
        /\ ended.did[Len(ended.did)] = DidOnDisconnect
        /\ ~store.exists

\* What an adapter throws for a connector without accounts: 'No accounts
\* found!' (part_001, part_002), 'No EVM wallet connected' (part_003).
NoAccountsFound == {"NoAccounts", "NotConnected"}

\* C25: a connect or a resume that the connector answered with no
\* address throws the adapter's no-accounts error, and such a connect
\* has called neither addWallet nor the onConnect hook.
C25_NoAccountsFound ==
    (ended.op \in {"connect", "resume"} /\ ended.reported = {<<>>}) =>
        /\ ended.error \in NoAccountsFound
        /\ ended.op = "connect" =>
              DidKinds(ended) \cap {"addWallet", "onConnect"} = {}

\* The connect calls in progress.
ConnectsInProgress == {operation \in InProgress : operation.op = "connect"}

\* C26: on the RainbowKit adapters at most one connect is in progress,
\* and a connect call that ends while another connect is in progress
\* returned an empty list having done nothing: no request to the
\* connector, no getAddress, no addWallet, no onConnect.
C26_ConnectNotReentrant ==
    IsKit =>
        /\ \A operation \in ConnectsInProgress :
              /\ CopiesIn(operation, calls) = 1
              /\ ConnectsInProgress = {operation}
        /\ (ended.op = "connect" /\ ConnectsInProgress # {}) =>
              /\ ended.error = "none"
              /\ ended.walletAccounts = <<>>
              /\ ended.did = <<>>

\* C27: no step of a signTransactions call (classification, the rebuild
\* from the persisted metadata, the chain guard, the signature call, the
\* hooks, the catch block) changes the persisted accounts or the active
\* account: the store changes only in a connect (addWallet), a resume
\* (setAccounts, onDisconnect) or a disconnect (onDisconnect).
C27_SignReadsStoreOnly ==
    [][ /\ last'.op = "signTransactions" => store' = store
        /\ store' # store => last'.op \in {"connect", "resume", "disconnect"} ]_vars

\* A signTransactions call over a persisted session that got through the
\* chain guard and then failed at the signature request.
C27_Witness ==
    /\ Threw
    /\ store.exists
    /\ call.signCalls # <<>>
    /\ last.op = "signTransactions"

\* The last step ended a connect that returned its accounts.
ConnectReturned ==
    ended.op = "connect" /\ ended.error = "none" /\ ended.walletAccounts # <<>>

\* C28: a connect that returned has, in this order, asked the connector
\* for the source addresses, called getAddress for each of them in turn,
\* called addWallet once, with the derived accounts in the order of the
\* source addresses and the first of them as the active account, and
\* then, where a hook is set, called onConnect with the first source
\* address and the address derived from it; the store holds that record.
C28_ConnectOrder ==
    ConnectReturned =>
        LET evmAddresses == ended.evmAddresses
            walletAccounts == ended.walletAccounts
            asks == [k \in DOMAIN evmAddresses |-> AsksAddress(evmAddresses[k])]
            persisted == Did("addWallet", walletAccounts, Absent,
                             walletAccounts[1].address)
            notified == Did("onConnect", <<>>, evmAddresses[1],
                            getAddress(evmAddresses[1]))
        IN  /\ ended.reported = {evmAddresses}
            /\ Len(walletAccounts) = Len(evmAddresses)
            /\ \A k \in DOMAIN walletAccounts :
                  walletAccounts[k].address = getAddress(evmAddresses[k])
            /\ ended.did = <<Requested>> \o asks \o <<persisted>>
                              \o (IF onConnect THEN <<notified>> ELSE <<>>)
            /\ store.accounts = walletAccounts
            /\ store.activeAccount = walletAccounts[1].address

\* A connect of two addresses that returned and notified the hook.
C28_Witness ==
    /\ ConnectReturned
    /\ ended.evmAddresses = <<"0xB", "0xA">>
    /\ "onConnect" \in DidKinds(ended)
    /\ store.activeAccount = "ALGO_B"

\* C29: when getAddress throws for an address of the batch, the connect
\* or resume that called deriveAlgorandAccounts throws too, having called
\* neither addWallet nor setAccounts nor onConnect; the store is left as
\* it was or, by the catch block of a resume, without a session, so it
\* never holds the accounts derived before the failure.
C29_DeriveAllOrNothing ==
    [][ (ended'.error = "DeriveError" /\ calls' # calls) =>
            /\ ended'.op \in {"connect", "resume"}
            /\ DidKinds(ended') \cap {"addWallet", "setAccounts", "onConnect"} = {}
            /\ \/ store' = store
               \/ ended'.op = "resume" /\ store' = NoSession ]_vars

\* A connect of two addresses whose second getAddress call threw.
C29_Witness ==
    /\ ended.op = "connect"
    /\ ended.error = "DeriveError"
    /\ Len(ended.evmAddresses) = 2
    /\ Len(ended.walletAccounts) = 1
    /\ ~store.exists

\* The sender whose source address the call resolved.
ResolvedSender ==
    IF wallet = "Rainbow" THEN call.txnsToSign[1].txn.sender
    ELSE call.txnsToSign[1].sender

\* C30: every signature call of a signTransactions call is made for one
\* source address, the one the call resolved from the map, and every blob
\* of the result is signed by that address, whatever the senders of the
\* entries.
C30_OneSourceAddress ==
    call.signCalls # <<>> =>
        /\ call.evmAddress \in EvmAddrs
        /\ call.evmAddress = evmAddressMap[ResolvedSender]
        /\ \A k \in DOMAIN call.signCalls :
              call.signCalls[k].evmAddress = call.evmAddress
        /\ \A k \in DOMAIN call.result :
              call.result[k] # NullBlob => call.result[k].by = call.evmAddress

\* A call that returned two blobs for entries whose senders are two
\* accounts of this wallet.
C30_Witness ==
    /\ Returned
    /\ Len(call.result) >= 2
    /\ call.result[1] # NullBlob
    /\ call.result[2] # NullBlob
    /\ Normalized[1].sender # Normalized[2].sender
    /\ {Normalized[1].sender, Normalized[2].sender} \subseteq OwnedAddresses
    /\ call.result[2].by = call.evmAddress

---------------------------------------------------------------------------
(* C31..C39 *)

\* C31: with the guard of the second RainbowKit revision, a failed network
\* switch never aborts signing: the guard reads the connector's chain id
\* once, asks for no switch when it is the target's and for exactly one
\* otherwise, makes none of the default guard's requests, never fails, and
\* the call then makes its one external signature call.
C31_SoftGuardNeverAborts ==
    LET reads == Requests("getAccount")
        switches == Requests("switchChain")
        guardOver == pc \in {"signTxn", "done"}
    IN  (wallet = "RainbowKitSoftGuard" /\ reads # {}) =>
            /\ Cardinality(reads) = 1
            /\ Cardinality(switches) <= 1
            /\ (\E k \in reads : call.rpcLog[k].code = ALGORAND_CHAIN_ID) =>
                  switches = {}
            /\ (guardOver /\ \E k \in reads :
                                call.rpcLog[k].code # ALGORAND_CHAIN_ID) =>
                  Cardinality(switches) = 1
            /\ Requests("eth_chainId") = {}
            /\ Requests("wallet_switchEthereumChain") = {}
            /\ Requests("wallet_addEthereumChain") = {}
            /\ call.error \notin {"SwitchError", "AddError"}
            /\ pc \in {"switchChain", "signTxn", "done"}
            /\ pc = "done" =>
                  /\ Len(call.signCalls) = 1
                  /\ Cardinality(Requests("signature")) = 1
                  /\ \A s \in switches, g \in Requests("signature") : s < g

\* A call of that revision returns signed blobs after its one switch
\* attempt failed.
C31_Witness ==
    /\ wallet = "RainbowKitSoftGuard"
    /\ Returned
    /\ \E k \in Requests("switchChain") : call.rpcLog[k].reply = "error"
    /\ Len(call.signCalls) = 1
    /\ \E k \in DOMAIN call.result : call.result[k] # NullBlob

---------------------------------------------------------------------------
(* initializeEvmSdk, await by await *)

\* SdkSpec follows initializeEvmSdk through its two awaited imports for
\* the operations that call it first thing, with up to MaxCalls of them
\* in progress; what an operation does once it has its handle is one step.

\* How many operations are in initializeEvmSdk or hold its handle.
SdkInProgress ==
    Cardinality({o \in SdkOperations : sdkCalls[o].pc # "idle"})

\* An operation calls initializeEvmSdk (liquid-evm-base.ts lines 134-138):
\* a handle already set is returned, else the call awaits the import of
\* algokit-utils, or with a client already set the import of the SDK.
\* resumeSession returns before it when there is no session.
InitializeEvmSdk ==
    /\ \E o \in SdkOperations :
          /\ sdkCalls[o].pc = "idle"
          /\ SdkInProgress < MaxCalls
          /\ o = "resume" => store.exists
          /\ sdkCalls' = [sdkCalls EXCEPT ![o] =
                IF liquidEvmSdk # 0
                THEN [pc |-> "using", sdk |-> liquidEvmSdk]
                ELSE IF algorandClient = 0
                     THEN [pc |-> "importAlgokit", sdk |-> 0]
                     ELSE [pc |-> "importSdk", sdk |-> 0]]
    /\ UNCHANGED <<wallet, store, evmAddressMap, pc, call, uiHooks, last,
                   _connecting, calls, ended, parked, liquidEvmSdk, algorandClient>>

\* Lines 139-144: the import of algokit-utils resolves and a client is
\* made and set, with no second look at the field; or the import rejects
\* and the operation throws.
ImportAlgokit ==
    /\ \E o \in SdkOperations :
          /\ sdkCalls[o].pc = "importAlgokit"
          /\ \/ /\ algorandClient' = algorandClient + 1
                /\ sdkCalls' = [sdkCalls EXCEPT ![o].pc = "importSdk"]
             \/ /\ sdkCalls' = [sdkCalls EXCEPT ![o].pc = "idle"]
                /\ UNCHANGED algorandClient
    /\ UNCHANGED <<wallet, store, evmAddressMap, pc, call, uiHooks, last,
                   _connecting, calls, ended, parked, liquidEvmSdk>>

\* Lines 146-151: the import of liquid-accounts-evm resolves, a
\* LiquidEvmSdk is made over the client, set and returned; or the import
\* rejects and the operation throws.
ImportSdk ==
    /\ \E o \in SdkOperations :
          /\ sdkCalls[o].pc = "importSdk"
          /\ \/ /\ liquidEvmSdk' = liquidEvmSdk + 1
                /\ sdkCalls' = [sdkCalls EXCEPT
                                  ![o] = [pc |-> "using", sdk |-> liquidEvmSdk + 1]]
             \/ /\ sdkCalls' = [sdkCalls EXCEPT ![o].pc = "idle"]
                /\ UNCHANGED liquidEvmSdk
    /\ UNCHANGED <<wallet, store, evmAddressMap, pc, call, uiHooks, last,
                   _connecting, calls, ended, parked, algorandClient>>

\* The operation goes on with its handle and ends.  connect and
\* resumeSession derive with the handle deriveAlgorandAccounts gets from
\* its own initializeEvmSdk call (line 158), the one the field holds by
\* then; signTransactions signs with the handle it awaited (line 248) and
\* may rebuild the map from the store (part_000 lines 271-284).
SdkOperationEnds ==
    /\ \E o \in SdkOperations :
          /\ sdkCalls[o].pc = "using"
          /\ CASE o = "connect" ->
                    /\ connect
                    /\ sdkCalls' = [sdkCalls EXCEPT
                                      ![o] = [pc |-> "idle", sdk |-> liquidEvmSdk]]
               [] o = "resume" ->
                    /\ resumeSession
                    /\ sdkCalls' = [sdkCalls EXCEPT
                                      ![o] = [pc |-> "idle", sdk |-> liquidEvmSdk]]
               [] o = "signTransactions" ->
                    /\ evmAddressMap' \in
                          {evmAddressMap} \cup
                          (IF HasFallback
                           THEN {rebuildFrom(evmAddressMap, store.accounts)}
                           ELSE {})
                    /\ last' = [NoLast EXCEPT !.op = "signTransactions"]
                    /\ sdkCalls' = [sdkCalls EXCEPT ![o].pc = "idle"]
                    /\ UNCHANGED store
    /\ UNCHANGED <<wallet, pc, call, uiHooks, _connecting, calls, ended, parked,
                   liquidEvmSdk, algorandClient>>

\* disconnect (part_001 lines 190-199) leaves liquidEvmSdk and
\* algorandClient as they are.
SdkDisconnect ==
    /\ disconnect
    /\ UNCHANGED <<wallet, pc, call, uiHooks, _connecting, calls, ended, parked, sdkVars>>

\* The page is reloaded: a new instance, liquidEvmSdk = null.
SdkReload ==
    /\ evmAddressMap' = EmptyMap
    /\ last' = NoLast
    /\ liquidEvmSdk' = 0
    /\ algorandClient' = 0
    /\ sdkCalls' = NoSdkCalls
    /\ UNCHANGED <<wallet, store, pc, call, uiHooks, _connecting, calls, ended, parked>>

SdkNext ==
    \/ InitializeEvmSdk
    \/ ImportAlgokit
    \/ ImportSdk
    \/ SdkOperationEnds
    \/ SdkDisconnect
    \/ SdkReload

SdkSpec == SessionInit /\ [][SdkNext]_vars

\* C32: an adapter instance makes at most one LiquidEvmSdk and one
\* AlgorandClient, and every operation is given and uses that one handle,
\* also when operations overlap in initializeEvmSdk.
C32_OneSdkHandle ==
    /\ liquidEvmSdk <= 1
    /\ algorandClient <= 1
    /\ \A o \in SdkOperations : sdkCalls[o].sdk <= 1

\* C33: when a connect or a resume has completed, every account persisted
\* for the wallet has its address in the map, mapped to the source
\* address it is derived from, which is the one its metadata carries if it
\* carries one.
C33_PersistedAccountsResolvable ==
    (last.op \in {"connect", "resume"} /\ last.error = "none") =>
        \A k \in DOMAIN store.accounts :
            LET account == store.accounts[k]
            IN  /\ evmAddressMap[account.address] \in EvmAddrs
                /\ getAddress(evmAddressMap[account.address]) = account.address
                /\ account.evmAddress # Absent =>
                      evmAddressMap[account.address] = account.evmAddress

\* A resume on the first instance map (nothing derived before it) leaves
\* two persisted accounts, both resolvable.
C33_Witness ==
    /\ last.op = "resume"
    /\ last.error = "none"
    /\ last.mapBefore = EmptyMap
    /\ Len(store.accounts) = 2
    /\ \A k \in DOMAIN store.accounts :
          evmAddressMap[store.accounts[k].address] \in EvmAddrs

\* C34: a signTransactions call invokes onAfterSign at most once: with
\* true only when it returns a result, after its signature call came
\* back; with false only when it throws, the message being the error's.
C34_AfterSignOnce ==
    /\ Len(call.afterSign) <= 1
    /\ \A k \in DOMAIN call.afterSign :
          IF call.afterSign[k].success
          THEN /\ Returned
               /\ Len(call.signCalls) = 1
               /\ \E g \in Requests("signature") : call.rpcLog[g].reply = "ok"
          ELSE /\ Threw
               /\ call.afterSign[k].message = call.error

\* A call that returns signed blobs has told onAfterSign once, of the
\* success.
C34_Witness ==
    /\ Returned
    /\ \E i \in DOMAIN call.result : call.result[i] # NullBlob
    /\ Len(call.afterSign) = 1
    /\ call.afterSign[1].success
    /\ ~call.afterSign[1].threw

\* C35: on the RainbowKit adapter that has the flag, _connecting is set
\* exactly while a connect body is in progress, before and after every
\* step (a connect that returns or throws, an ignored duplicate call),
\* and no connect call is ignored while no connect is in progress.
C35_FlagTracksConnect ==
    [][ wallet = "RainbowKit" =>
          /\ _connecting = (ConnectsInProgress # {})
          /\ _connecting' = (ConnectsInProgress' # {})
          /\ ConnectsInProgress = {} => ~EndsAtOnce("connect") ]_vars

\* A connect of that adapter threw while another call was in progress,
\* and the flag is clear.
C35_Witness ==
    /\ wallet = "RainbowKit"
    /\ ended.op = "connect"
    /\ ended.error # "none"
    /\ ended.did # <<>>
    /\ InProgress # {}
    /\ ~_connecting

---------------------------------------------------------------------------
(* Two signTransactions calls that overlap *)

\* OverlapSpec runs two signTransactions calls on a connected instance of
\* an application that sets no hooks.  pc and call are the call that
\* runs, parked the other one, suspended at its await; Resumes hands the
\* thread from one to the other, which can happen at every await.  What
\* holds of the running call in every state holds of the parked one too:
\* it is the running call of the state Resumes leads to.

\* The groups the two calls are given: flat, without an index filter.
OverlapInputs ==
    {in \in SignInputs :
        /\ ~in.nested
        /\ ~in.indexesToSign.given
        /\ Len(in.txnGroup) \in 1..MaxOverlapTxns}

\* signTransactions is called while the other call, if there is one, is
\* suspended.
OverlapSignTransactions ==
    /\ pc = "idle"
    /\ \E in \in OverlapInputs :
          IF wallet = "Rainbow"
          THEN BaseSignTransactions(in)
          ELSE AltSignTransactions(in)
    /\ last' = [NoLast EXCEPT !.op = "signTransactions"]
    /\ UNCHANGED <<wallet, store, uiHooks, sessionVars>>

\* The running call is suspended at its await and the other call resumes
\* with its own locals.
Resumes ==
    /\ pc # "idle" \/ parked.pc # "idle"
    /\ pc' = parked.pc
    /\ call' = parked.call
    /\ parked' = [pc |-> pc, call |-> call]
    /\ UNCHANGED <<wallet, store, evmAddressMap, uiHooks, last,
                   _connecting, calls, ended, sdkVars>>

\* An instance that connect has run on, in an application without hooks.
OverlapInit ==
    /\ wallet \in Wallets
    /\ uiHooks = [onConnect |-> FALSE, onBeforeSign |-> FALSE, onAfterSign |-> FALSE]
    /\ \E evmAddresses \in ConnectorReports :
          /\ store = addWallet(deriveAlgorandAccounts(evmAddresses))
          /\ evmAddressMap = derivedMap(EmptyMap, evmAddresses)
    /\ pc = "idle"
    /\ call = NoCall
    /\ last = NoLast
    /\ _connecting = FALSE
    /\ calls = EmptyBag
    /\ ended = NoOperation
    /\ liquidEvmSdk = 0
    /\ algorandClient = 0
    /\ sdkCalls = NoSdkCalls
    /\ parked = NoParked

OverlapNext ==
    \/ OverlapSignTransactions
    \/ Resumes
    \/ EthChainId
    \/ SwitchEthereumChainOk
    \/ SwitchEthereumChainFails
    \/ AddEthereumChain
    \/ GetAccount
    \/ SwitchChain
    \/ SignTxnOk
    \/ SignTxnFails
    \/ Return

OverlapSpec == OverlapInit /\ [][OverlapNext]_vars

\* The running call ended while the other call is in progress.
Overlapped == pc = "done" /\ parked.pc # "idle"

\* C36: a signTransactions call that returns while another call is in
\* progress returns an array of its own group's length, non-null exactly
\* at its own group's eligible indexes, every blob being the one its own
\* single signature call made of the entry at that index.
C36_OverlappingCallsApart ==
    (Overlapped /\ Returned) =>
        /\ Len(call.result) = Len(Normalized)
        /\ \A i \in Indexes :
              (call.result[i + 1] # NullBlob) <=> (i \in EligibleIndexes)
        /\ \A i \in Indexes :
              call.result[i + 1] # NullBlob =>
                  /\ Len(call.signCalls) = 1
                  /\ call.result[i + 1] =
                        SignedBlob(Normalized[i + 1], call.signCalls[1].evmAddress)

\* A call that was in progress ends with this step.
EndsInProgress(op) ==
    /\ ended'.op = op
    /\ BagCardinality(calls') < BagCardinality(calls)

\* C37: when a disconnect has completed while a connect or a resume was
\* suspended and that call then ends, the map is still empty and the
\* store holds no session: the call has set no map entry and persisted
\* no account after the disconnect.
C37_DisconnectIsFinal ==
    [][ (/\ ended.op = "disconnect"
         /\ EndsInProgress("connect") \/ EndsInProgress("resume")) =>
            /\ evmAddressMap' = EmptyMap
            /\ ~store'.exists ]_vars

---------------------------------------------------------------------------
(* connect and resumeSession with the connector's metadata *)

\* ResumeSpec runs connect, resumeSession and disconnect one after the
\* other, each from start to end, on what the connector answers: its
\* addresses and, from wagmi, its name and icon.

\* deriveAlgorandAccounts(evmAddresses, connectorInfo): the accounts.
accountsOf(evmAddresses, connectorInfo) ==
    [k \in 1..Len(evmAddresses) |-> walletAccount(evmAddresses[k], connectorInfo)]

\* connect on an answer with addresses: derive, addWallet.
connectOn(answer) ==
    /\ evmAddressMap' = derivedMap(evmAddressMap, answer.addresses)
    /\ store' = addWallet(accountsOf(answer.addresses, answer.connectorInfo))
    /\ last' = [NoLast EXCEPT !.op = "connect", !.reported = {answer}]

\* A resumeWithAccounts that writes the accounts last address first.
resumeWithAccountsReversing(answer, evmAddresses, connectorInfo) ==
    LET rebuilt == IF wallet = "MetaMask" THEN evmAddressMap
                   ELSE rebuildFrom(evmAddressMap, store.accounts)
        walletAccounts == accountsOf(evmAddresses, connectorInfo)
        n == Len(walletAccounts)
        reversed == [k \in 1..n |-> walletAccounts[n + 1 - k]]
    IN  /\ evmAddressMap' = derivedMap(rebuilt, evmAddresses)
        /\ store' = IF WritesAccounts(walletAccounts, store)
                    THEN setAccounts(reversed)
                    ELSE store
        /\ last' = [NoLast EXCEPT !.op = "resume",
                                  !.persisted = store.accounts,
                                  !.evmAddresses = evmAddresses,
                                  !.mapBefore = evmAddressMap,
                                  !.walletAccounts = walletAccounts,
                                  !.reported = {answer}]

\* resumeWithAccounts (liquid-evm-base.ts lines 329-361, part_000 lines
\* 340-376) and the like of it in part_002 (lines 258-270, no rebuild):
\* the map is set from the persisted metadata, the addresses are derived,
\* the accounts compared and written.
resumeWithAccountsOn(answer, evmAddresses, connectorInfo) ==
    LET rebuilt == IF wallet = "MetaMask" THEN evmAddressMap
                   ELSE rebuildFrom(evmAddressMap, store.accounts)
        walletAccounts == accountsOf(evmAddresses, connectorInfo)
    IN  /\ evmAddressMap' = derivedMap(rebuilt, evmAddresses)
        /\ store' = IF WritesAccounts(walletAccounts, store)
                    THEN setAccounts(walletAccounts)
                    ELSE store
        /\ last' = [NoLast EXCEPT !.op = "resume",
                                  !.persisted = store.accounts,
                                  !.evmAddresses = evmAddresses,
                                  !.mapBefore = evmAddressMap,
                                  !.walletAccounts = walletAccounts,
                                  !.reported = {answer}]

\* resumeSession ends without deriving: it returns (no session; part_003
\* lines 325-329 after onDisconnect), or it throws and its catch block
\* has called onDisconnect.
resumeEnds(answer, error, disconnects) ==
    /\ store' = IF disconnects THEN NoSession ELSE store
    /\ UNCHANGED evmAddressMap
    /\ last' = [NoLast EXCEPT !.op = "resume", !.error = error,
                              !.persisted = store.accounts,
                              !.reported = {answer}]

\* resumeSession of the four adapters on an answer of the connector.
resumeSessionOn(answer) ==
    IF ~store.exists
    THEN resumeEnds(answer, "none", FALSE)
    ELSE CASE wallet \in {"Rainbow", "MetaMask"} ->
                IF answer.addresses = <<>>
                THEN resumeEnds(answer, "NoAccounts", TRUE)
                ELSE resumeWithAccountsOn(answer, answer.addresses, NoConnectorInfo)
           [] wallet = "RainbowKitSoftGuard" ->
                IF answer.addresses = <<>>
                THEN resumeEnds(answer, "NotConnected", TRUE)
                ELSE resumeWithAccountsOn(answer, answer.addresses,
                         persistedConnectorInfo(answer.connectorInfo, store))
           [] wallet = "RainbowKit" ->
                LET live == answer.addresses # <<>>
                    evmAddresses == IF live THEN answer.addresses
                                    ELSE persistedEvmAddresses
                    connectorInfo == IF live THEN answer.connectorInfo
                                     ELSE NoConnectorInfo
                IN  IF evmAddresses = <<>>
                    THEN resumeEnds(answer, "none", TRUE)
                    ELSE resumeWithAccountsOn(answer, evmAddresses,
                             persistedConnectorInfo(connectorInfo, store))

\* connect is called and runs to its end.
ConnectRuns ==
    /\ \E answer \in ConnectorAnswers :
          /\ answer.addresses # <<>>
          /\ connectOn(answer)
    /\ UNCHANGED <<wallet, pc, call, uiHooks, sessionVars>>

\* resumeSession is called and runs to its end.
ResumeRuns ==
    /\ \E answer \in ConnectorAnswers : resumeSessionOn(answer)
    /\ UNCHANGED <<wallet, pc, call, uiHooks, sessionVars>>

ResumeNext ==
    \/ ConnectRuns
    \/ ResumeRuns
    \/ Disconnect
    \/ Reload

ResumeSpec == SessionInit /\ [][ResumeNext]_vars

\* C38: a resume that follows a resume which returned, on the same answer
\* of the connector (addresses, name and icon), leaves the persisted
\* accounts, the active account and the map as the first left them, and
\* the accounts it derives match the persisted ones.
C38_ResumeIdempotent ==
    [][ (/\ last.op = "resume"
         /\ last.error = "none"
         /\ last'.op = "resume"
         /\ last'.reported = last.reported) =>
            /\ store' = store
            /\ evmAddressMap' = evmAddressMap
            /\ last'.error = "none"
            /\ last'.evmAddresses # <<>> =>
                  compareAccounts(last'.walletAccounts, last'.persisted) ]_vars

\* A resume of a kit adapter found persisted, under the connector name
\* "Coinbase Wallet", the two accounts it derives, and the map as it
\* leaves it: what a resume on the same answer had left.
C38_Witness ==
    /\ IsKit
    /\ last.op = "resume"
    /\ last.error = "none"
    /\ Len(last.walletAccounts) = 2
    /\ last.persisted = last.walletAccounts
    /\ last.persisted = store.accounts
    /\ last.walletAccounts[1].connectorName = "Coinbase Wallet"
    /\ last.mapBefore = evmAddressMap

\* The source addresses a call asked getAddress for, in order.
AskedAddresses(operation) ==
    LET asked == DidOf(operation, "getAddress")
    IN  [k \in DOMAIN asked |-> asked[k].evmAddress]

\* C39: on the RainbowKit adapters a resume that finds a session and a
\* connector that is not connected does not throw for that: it derives
\* from the source addresses of the persisted accounts' metadata, or,
\* when it has none to derive from, calls onDisconnect and returns
\* having called neither getAddress nor setAccounts.
C39_ResumeBeforeConnector ==
    (IsKit /\ ended.op = "resume" /\ ended.reported = {<<>>}) =>
        /\ ended.error \notin NoAccountsFound
        /\ IF "getAddress" \in DidKinds(ended)
           THEN /\ ended.evmAddresses # <<>>
                /\ \A k \in DOMAIN ended.walletAccounts :
                      ended.walletAccounts[k].evmAddress = ended.evmAddresses[k]
                /\ \A k \in DOMAIN AskedAddresses(ended) :
                      AskedAddresses(ended)[k] = ended.evmAddresses[k]
           ELSE /\ "setAccounts" \notin DidKinds(ended)
                /\ ended.error = "none"

===========================================================================
